---- MODULE Spec2Model ----
(***************************************************************************)
(* Model of the rate-extraction pipeline of API-lanakj0r:                  *)
(*   functions/banks/base.py     BankScraper.enhance_with_ai,              *)
(*                               _count_nulls, _merge_data                 *)
(*   functions/ai_processor.py   AIProcessor.parse_bank_data,              *)
(*                               _get_empty_structure, _count_nulls        *)
(*   functions/config.py         Config                                    *)
(*                                                                         *)
(* Python values are tagged records:                                       *)
(*   None            [t |-> "null"]                                        *)
(*   a number        [t |-> "num",  v |-> n]                               *)
(*   a string        [t |-> "str",  s |-> "..."]                           *)
(*   a dict          [t |-> "dict", d |-> function from its keys]          *)
(*   a list          [t |-> "list", l |-> sequence of its items]           *)
(***************************************************************************)
EXTENDS Integers, Sequences, FiniteSets, TLC

VARIABLES
    \* ---- reconciler algebra (SpecMerge) ----
    original,        \* first argument of _merge_data (deterministic record)
    ai_record,       \* second argument of _merge_data (AI record)
    third,           \* a third record, for merging three records
    merged,          \* _merge_data(original, ai_record)
    merged_left,     \* _merge_data(_merge_data(original, ai_record), third)
    merged_right,    \* _merge_data(original, _merge_data(ai_record, third))
    mpc,             \* position of the reconciler run
    \* ---- completeness evaluator (SpecCount) ----
    data,            \* the value handed to _count_nulls
    null_count,      \* BankScraper._count_nulls(data)
    ai_null_count,   \* AIProcessor._count_nulls(data)
    cpc,             \* position of the evaluator run
    \* ---- AI fallback pipeline (Spec) ----
    use_ai_parsing,      \* BankScraper.use_ai_parsing
    OPENROUTER_API_KEY,  \* Config.OPENROUTER_API_KEY is set (truthy)
    ENABLE_AI_PARSING,   \* Config.ENABLE_AI_PARSING
    AI_NULL_THRESHOLD,   \* Config.AI_NULL_THRESHOLD
    ai_env,              \* "ok" | "import_error" | "init_error"
    parsed_data,         \* the deterministic candidate
    provider,            \* what the provider answers to its 1st, 2nd, ... call
    calls,               \* provider calls made so far
    ai_data,             \* what parse_bank_data returned
    ai_raised,           \* parse_bank_data raised to its caller
    parsed_nulls,        \* null_count computed by enhance_with_ai
    enhanced_data,       \* what enhance_with_ai returned
    pc,                  \* position of the pipeline run
    \* ---- one scrape_rates call of a bank scraper (SpecScrape) ----
    scraper,         \* bank_id of the scraper that runs
    acquisition,     \* how far the retrieval of the source got
    api_data,        \* JSON body of Arion's API (None when the API failed)
    rate_data,       \* first item returned by scrape_rates
    source_url,      \* second item returned by scrape_rates
    extractor_ran,   \* the pattern extractor was run
    ai_sent,         \* the raw text was sent to the AI fallback
    spc,             \* position of the scrape
    \* ---- RateService (SpecService) ----
    db,              \* Firestore: "ok", "none" (no client) or "failing" (calls raise)
    store,           \* the documents of the collection, most recent first
    clock,           \* the time, in hours
    ncalls,          \* calls of the service made so far
    op,              \* the last call: "get_bank_rates" or "get_all_bank_rates"
    requested,       \* its argument bank_id ("" for get_all_bank_rates)
    force_refresh,   \* its argument force_refresh
    sites,           \* per supported bank: what its scrape met and returned, or NotScraped
    store_before,    \* the store when the last call started
    call_log,        \* collaborator calls the last call made, in order
    response,        \* what the last call returned (None when it raised)
    raised,          \* the exception the last call raised ("" when none)
    vpc,             \* position of the service
    refreshed,       \* per bank: the time of its last save that succeeded (SpecRefresh)
    previous,        \* the call before the last one (SpecRefresh)
    \* ---- parse_effective_date (SpecDate) ----
    date_text,       \* the date mentions of the text, in order
    today,           \* datetime.utcnow() of the run
    date_source,     \* the scraper whose parse_effective_date ran
    effective_date,  \* what it returned
    dpc,             \* position of the date parse
    \* ---- _parse_tiered_accounts (SpecTier) ----
    section_found,   \* the account section was found in the text
    tier_matches,    \* per tier label: the match of its pattern in the section
    parsed_tiers,    \* what _parse_tiered_accounts returned (its `tiers`)
    tpc,             \* position of the tier parse
    \* ---- the HTML and PDF parsers (SpecKey, SpecRows, SpecPage, SpecSections) ----
    account_name,    \* the text given to normalize_key
    normalized,      \* what normalize_key returned
    table,           \* the rows of the table given to parse_table_rows
    row_result,      \* what parse_table_rows returned
    page_tables,     \* the tables of the page, in document order
    grouped,         \* what extract_tables_by_keywords returned
    combined,        \* per sub-section: the rows the parser stored for it
    pdf_text,        \* the lines of the PDF text given to parse_rates_from_pdf
    pdf_mortgages,   \* rates["mortgages"] of what parse_rates_from_pdf returned
    ppc              \* position of the parser run

merge_vars == <<original, ai_record, third, merged, merged_left, merged_right, mpc>>
count_vars == <<data, null_count, ai_null_count, cpc>>
ai_vars == <<use_ai_parsing, OPENROUTER_API_KEY, ENABLE_AI_PARSING, AI_NULL_THRESHOLD,
             ai_env, parsed_data, provider, calls, ai_data, ai_raised, parsed_nulls,
             enhanced_data, pc>>
scrape_vars == <<scraper, acquisition, api_data, rate_data, source_url, extractor_ran,
                 ai_sent, spc>>
service_vars == <<db, store, clock, ncalls, op, requested, force_refresh, sites,
                  store_before, call_log, response, raised, vpc, refreshed, previous>>
date_vars == <<date_text, today, date_source, effective_date, dpc>>
tier_vars == <<section_found, tier_matches, parsed_tiers, tpc>>
page_vars == <<account_name, normalized, table, row_result, page_tables, grouped,
               combined, pdf_text, pdf_mortgages, ppc>>
\* The groups added for the scrapers, the service and the parsers.
ext_vars == <<scrape_vars, service_vars, date_vars, tier_vars, page_vars>>
vars == <<merge_vars, count_vars, ai_vars, ext_vars>>

---------------------------------------------------------------------------
\* Bounds of the model.

\* Distinct numeric leaves a record may hold.
MaxNum == 2
\* Length of the scripted provider: answers to the 1st .. MaxAttempts-th call.
MaxAttempts == 2
\* Calls of the service in one behaviour.
MaxCalls == 1
\* Calls of the service in one behaviour of refreshes: one more than the
\* documents a prune keeps.
MaxRefreshes == 6
\* Characters of a text given to normalize_key.
MaxNameLen == 4
\* Rows of a table given to parse_table_rows.
MaxRows == 3
\* Tables of a page given to parse_deposits and parse_loans.
MaxTables == 2
\* Lines of a PDF text given to parse_rates_from_pdf.
MaxLines == 4

---------------------------------------------------------------------------
\* Python values.

Null == [t |-> "null"]
Num(n) == [t |-> "num", v |-> n]
Str(s) == [t |-> "str", s |-> s]
Dict(f) == [t |-> "dict", d |-> f]
List(q) == [t |-> "list", l |-> q]
EmptyDict == Dict([k \in {} |-> Null])
EmptyList == List(<<>>)

IsNone(x) == x.t = "null"
IsDict(x) == x.t = "dict"
IsList(x) == x.t = "list"
\* Python's `not x` for a dict: the dict is empty.
IsEmptyDict(x) == IsDict(x) /\ DOMAIN x.d = {}
\* dict.get(key): the value, or None when the key is absent.
Get(x, key) == IF key \in DOMAIN x.d THEN x.d[key] ELSE Null

\* Sum of f over the finite set S.
RECURSIVE SumOver(_, _)
SumOver(S, f) ==
    IF S = {} THEN 0
    ELSE LET e == CHOOSE e \in S : TRUE IN f[e] + SumOver(S \ {e}, f)

---------------------------------------------------------------------------
\* Completeness evaluator.

\* A plausible slip: an empty container is scored as nothing missing.
RECURSIVE count_nulls_empty_is_zero(_)
count_nulls_empty_is_zero(x) ==
    IF IsNone(x) THEN 1
    ELSE IF IsDict(x) THEN
        SumOver(DOMAIN x.d, [k \in DOMAIN x.d |-> count_nulls_empty_is_zero(x.d[k])])
    ELSE IF IsList(x) THEN
        SumOver(DOMAIN x.l, [i \in DOMAIN x.l |-> count_nulls_empty_is_zero(x.l[i])])
    ELSE 0

\* BankScraper._count_nulls (base.py 106-119).
RECURSIVE _count_nulls(_)
_count_nulls(x) ==
    IF IsNone(x) THEN 1
    ELSE IF IsDict(x) THEN
        IF DOMAIN x.d = {} THEN 1
        ELSE SumOver(DOMAIN x.d, [k \in DOMAIN x.d |-> _count_nulls(x.d[k])])
    ELSE IF IsList(x) THEN
        IF x.l = <<>> THEN 1
        ELSE SumOver(DOMAIN x.l, [i \in DOMAIN x.l |-> _count_nulls(x.l[i])])
    ELSE 0

\* AIProcessor._count_nulls (ai_processor.py 203-216): a second copy of the code.
RECURSIVE AIProcessor_count_nulls(_)
AIProcessor_count_nulls(x) ==
    IF IsNone(x) THEN 1
    ELSE IF IsDict(x) THEN
        IF DOMAIN x.d = {} THEN 1
        ELSE SumOver(DOMAIN x.d, [k \in DOMAIN x.d |-> AIProcessor_count_nulls(x.d[k])])
    ELSE IF IsList(x) THEN
        IF x.l = <<>> THEN 1
        ELSE SumOver(DOMAIN x.l, [i \in DOMAIN x.l |-> AIProcessor_count_nulls(x.l[i])])
    ELSE 0

---------------------------------------------------------------------------
\* Reconciler.

\* A plausible slip: only the keys the AI record adds are visited.
all_keys_ai_only(orig, ai) == DOMAIN ai.d \ DOMAIN orig.d

\* all_keys = set(original.keys()) | set(ai_data.keys())   (base.py 130)
all_keys(orig, ai) == DOMAIN orig.d \cup DOMAIN ai.d

\* A plausible slip: the AI value wins when both sides are populated.
merge_value_ai_wins(orig_val, ai_val) ==
    IF IsNone(orig_val) \/ IsEmptyDict(orig_val) THEN ai_val
    ELSE IF IsNone(ai_val) \/ IsEmptyDict(ai_val) THEN orig_val
    ELSE ai_val

\* The branches of the loop body that do not recurse (base.py 138-144).
merge_value(orig_val, ai_val) ==
    IF IsNone(orig_val) \/ IsEmptyDict(orig_val) THEN ai_val
    ELSE IF IsNone(ai_val) \/ IsEmptyDict(ai_val) THEN orig_val
    ELSE orig_val

\* BankScraper._merge_data (base.py 121-146).
RECURSIVE _merge_data(_, _)
_merge_data(orig, ai) ==
    IF ~IsDict(orig) \/ ~IsDict(ai) THEN
        IF ~IsNone(orig) THEN orig ELSE ai
    ELSE
        Dict([key \in all_keys(orig, ai) |->
                LET orig_val == Get(orig, key)
                    ai_val == Get(ai, key)
                IN  IF IsDict(orig_val) /\ IsDict(ai_val)
                    THEN _merge_data(orig_val, ai_val)
                    ELSE merge_value(orig_val, ai_val)])

---------------------------------------------------------------------------
\* Positions inside a value, used to state the properties independently of
\* the recursion of the code.  A path is a sequence of steps; a step is a
\* dict key or a list index.

KeyStep(k) == [kind |-> "key", key |-> k, idx |-> 0]
IdxStep(i) == [kind |-> "idx", key |-> "", idx |-> i]

\* Every position of x: the root, and every position below a key or an index.
RECURSIVE Positions(_)
Positions(x) ==
    {<<>>} \cup
    (IF IsDict(x) THEN
        UNION {{<<KeyStep(k)>> \o p : p \in Positions(x.d[k])} : k \in DOMAIN x.d}
     ELSE IF IsList(x) THEN
        UNION {{<<IdxStep(i)>> \o p : p \in Positions(x.l[i])} : i \in DOMAIN x.l}
     ELSE {})

\* The positions reached through mappings only.
KeyPaths(x) == {p \in Positions(x) : \A i \in DOMAIN p : p[i].kind = "key"}

Missing == [t |-> "missing"]

\* The value of x at path p, or Missing when x has no such position.
RECURSIVE ValueAt(_, _)
ValueAt(x, p) ==
    IF p = <<>> THEN x
    ELSE LET s == Head(p) IN
        IF s.kind = "key" /\ IsDict(x) /\ s.key \in DOMAIN x.d
            THEN ValueAt(x.d[s.key], Tail(p))
        ELSE IF s.kind = "idx" /\ IsList(x) /\ s.idx \in DOMAIN x.l
            THEN ValueAt(x.l[s.idx], Tail(p))
        ELSE Missing

\* x holds a value other than None at path p.
HoldsNonNull(x, p) == ValueAt(x, p).t \notin {"null", "missing"}
\* x holds a populated value at p: neither None nor an empty mapping.
HoldsPopulated(x, p) == HoldsNonNull(x, p) /\ ~IsEmptyDict(ValueAt(x, p))
IsEmptyContainer(x) == IsEmptyDict(x) \/ (IsList(x) /\ x.l = <<>>)

---------------------------------------------------------------------------
\* Input universes.

\* Every function from a subset of K to V: the dicts with keys among K.
Fns(K, V) == UNION {[S -> V] : S \in SUBSET K}
Dicts(K, V) == {Dict(f) : f \in Fns(K, V)}

Numbers == {Num(n) : n \in 1..MaxNum}
OuterKeys == {"mortgages"}
InnerKeys == {"indexed", "unindexed"}

\* Records handed to the reconciler: {} or {"mortgages": v}, v a leaf, an
\* empty mapping, a list, or a mapping over indexed/unindexed.
MergeLeaves == {Null, EmptyDict, List(<<Null>>)} \cup Numbers
MergeValues == MergeLeaves \cup Dicts(InnerKeys, MergeLeaves)
MergeRecords == Dicts(OuterKeys, MergeValues)

\* Values handed to the completeness evaluator: leaves, mappings and lists,
\* nested two levels deep.
CountLeaves == {Null, EmptyDict, EmptyList} \cup Numbers
CountInner == CountLeaves \cup Dicts(InnerKeys, CountLeaves)
                \cup {List(<<a>>) : a \in CountLeaves}
                \cup {List(<<a, b>>) : a \in CountLeaves, b \in CountLeaves}
CountValues == CountInner \cup Dicts({"deposits", "mortgages"}, CountInner)
                \cup {List(<<a>>) : a \in CountInner}

---------------------------------------------------------------------------
\* AI fallback extractor.

\* AIProcessor._get_empty_structure (ai_processor.py 180-201).
_get_empty_structure ==
    Dict([k \in {"effective_date", "penalty_interest", "deposits", "mortgages",
                 "vehicle_loans", "overdrafts", "credit_cards"} |->
        CASE k = "effective_date" -> Null
          [] k = "penalty_interest" -> Null
          [] k = "deposits" ->
                Dict([j \in {"veltureikningar", "sparireikningar", "foreign_currency"} |->
                    IF j = "sparireikningar"
                    THEN Dict([i \in {"indexed", "unindexed", "other"} |-> EmptyDict])
                    ELSE EmptyDict])
          [] k = "mortgages" -> Dict([j \in {"indexed", "unindexed"} |-> EmptyDict])
          [] OTHER -> EmptyDict])

\* What the provider does on one call of client.chat.completions.create:
\*   kind "raise"  the call raises (network, authentication, rate limit)
\*   kind "none"   the message content is None
\*   kind "text"   the content is text: wrapped in a ```json fence, in a bare
\*                 ``` fence or in no fence; its payload is valid JSON for
\*                 `value`, or (valid = FALSE) not JSON at all (the empty
\*                 text included)
ProviderRaises == [kind |-> "raise", fence |-> "none", valid |-> FALSE, value |-> Null]
NoContent == [kind |-> "none", fence |-> "none", valid |-> FALSE, value |-> Null]
NotJson(fence) == [kind |-> "text", fence |-> fence, valid |-> FALSE, value |-> Null]
JsonText(fence, v) == [kind |-> "text", fence |-> fence, valid |-> TRUE, value |-> v]

\* Outcome of a Python call: a returned value, or an exception that escapes.
Returned(v) == [raised |-> FALSE, exc |-> "", value |-> v]
Raised(exc) == [raised |-> TRUE, exc |-> exc, value |-> Null]

\* response.choices[0].message.content.strip() and the removal of a Markdown
\* fence (ai_processor.py 67-73): the payload between the fences, or the
\* text itself when there is no fence; None has no strip().
result_text(answer) ==
    IF answer.kind = "raise" THEN Raised("Exception")
    ELSE IF answer.kind = "none" THEN Raised("AttributeError")
    ELSE Returned([valid |-> answer.valid, value |-> answer.value])

\* json.loads (ai_processor.py 75): the value of a valid text, of whatever
\* JSON type; JSONDecodeError otherwise.
json_loads(text) ==
    IF text.valid THEN Returned(text.value) ELSE Raised("JSONDecodeError")

\* AIProcessor.parse_bank_data (ai_processor.py 36-86): one provider call;
\* both except clauses return the empty structure.
parse_bank_data(answer) ==
    LET text == result_text(answer) IN
    IF text.raised THEN Returned(_get_empty_structure)
    ELSE LET parsed == json_loads(text.value) IN
         IF parsed.raised THEN Returned(_get_empty_structure)
         ELSE Returned(parsed.value)

---------------------------------------------------------------------------
\* Pattern extractor of Landsbankinn (parser.py): percentages and tiered
\* accounts.  A text matched by a regex group is a sequence of characters.
\* A rate parsed from a text is held in hundredths: "1,5" is Num(150).

Digit == ("0" :> 0) @@ ("1" :> 1) @@ ("2" :> 2) @@ ("3" :> 3) @@ ("4" :> 4) @@
         ("5" :> 5) @@ ("6" :> 6) @@ ("7" :> 7) @@ ("8" :> 8) @@ ("9" :> 9)

\* The number written by a sequence of digits.
RECURSIVE DigitsValue(_)
DigitsValue(q) ==
    IF q = <<>> THEN 0
    ELSE DigitsValue(SubSeq(q, 1, Len(q) - 1)) * 10 + Digit[q[Len(q)]]

\* str.replace(old, new) for one character; new = "" removes it.
RECURSIVE Replace(_, _, _)
Replace(q, old, new) ==
    IF q = <<>> THEN <<>>
    ELSE (IF Head(q) = old THEN (IF new = "" THEN <<>> ELSE <<new>>) ELSE <<Head(q)>>)
            \o Replace(Tail(q), old, new)

\* str.strip(): leading and trailing blanks removed.
RECURSIVE Strip(_)
Strip(q) ==
    IF q = <<>> THEN <<>>
    ELSE IF Head(q) = " " THEN Strip(Tail(q))
    ELSE IF q[Len(q)] = " " THEN Strip(SubSeq(q, 1, Len(q) - 1))
    ELSE q

\* float(value) for a text of digits and periods: at most one period and at
\* least one digit, or ValueError.  Two decimals are kept.
float(value) ==
    LET dots == {i \in DOMAIN value : value[i] = "."}
        digits == {i \in DOMAIN value : value[i] \in DOMAIN Digit}
    IN  IF Cardinality(dots) > 1 \/ digits = {} \/ dots \cup digits # DOMAIN value
        THEN Raised("ValueError")
        ELSE LET dot == IF dots = {} THEN Len(value) + 1 ELSE CHOOSE i \in dots : TRUE
                 whole == SubSeq(value, 1, dot - 1)
                 frac == SubSeq(value, dot + 1, Len(value))
                 cents == IF Len(frac) = 0 THEN 0
                          ELSE IF Len(frac) = 1 THEN Digit[frac[1]] * 10
                          ELSE Digit[frac[1]] * 10 + Digit[frac[2]]
             IN  Returned(Num(DigitsValue(whole) * 100 + cents))

\* InterestRateParser.parse_percentage (parser.py 81-102).
parse_percentage(value) ==
    LET v1 == Strip(Replace(value, "%", ""))
        v2 == Replace(v1, ",", ".")
        v3 == Strip(Replace(v2, "*", ""))
    IN  IF v3 = <<>> THEN Null
        ELSE LET f == float(v3) IN IF f.raised THEN Null ELSE f.value

\* The tier labels of _parse_tiered_accounts, by their keys, in the order of
\* the code (parser.py 354-361).
tier_patterns ==
    <<"tier_0_1m", "tier_1m_5m", "tier_5m_20m", "tier_20m_plus", "tier_0_20m",
      "tier_60m_plus">>
TierKeys == {tier_patterns[i] : i \in DOMAIN tier_patterns}

\* The match of a tier pattern in the section (parser.py 370-371): none, or
\* the texts of its groups 1, 3 and 5 that took part, one to three of them.
NoMatch == [matched |-> FALSE, groups |-> <<>>]
Match(groups) == [matched |-> TRUE, groups |-> groups]

\* The list `rates` (parser.py 373-378): the groups that parse to a number.
RECURSIVE tier_rates(_)
tier_rates(groups) ==
    IF groups = <<>> THEN <<>>
    ELSE LET rate == parse_percentage(Head(groups))
         IN  (IF ~IsNone(rate) THEN <<rate>> ELSE <<>>) \o tier_rates(Tail(groups))

\* A plausible slip: the two columns are read in the other order.
tier_value_columns_swapped(rates) ==
    IF Len(rates) = 1 THEN rates[1]
    ELSE IF Len(rates) = 2
        THEN Dict(("indexed" :> rates[2]) @@ ("unindexed" :> rates[1]))
    ELSE Dict(("unbound" :> rates[1]) @@ ("3_months" :> rates[2])
                @@ ("6_months" :> rates[3]))

\* The value stored for a tier with one, two or three rates (parser.py
\* 380-392).
tier_value(rates) ==
    IF Len(rates) = 1 THEN rates[1]
    ELSE IF Len(rates) = 2
        THEN Dict(("indexed" :> rates[1]) @@ ("unindexed" :> rates[2]))
    ELSE Dict(("unbound" :> rates[1]) @@ ("3_months" :> rates[2])
                @@ ("6_months" :> (IF Len(rates) > 2 THEN rates[3] ELSE Null)))

\* InterestRateParser._parse_tiered_accounts (parser.py 349-394): `found`
\* tells whether the account section was found, `matches` gives the match
\* of each tier pattern in it.
_parse_tiered_accounts(found, matches) ==
    IF ~found THEN EmptyDict
    ELSE Dict([tier_key \in {k \in TierKeys : /\ matches[k].matched
                                               /\ Len(tier_rates(matches[k].groups)) >= 1}
                |-> tier_value(tier_rates(matches[tier_key].groups))])

\* Group texts the rate tables may hold: per column a rate ("1,5", "5",
\* "2"), or a lone comma, which the pattern [\d,]+ matches and float()
\* rejects.
GroupTexts ==
    <<{<<"1", ",", "5">>, <<",">>}, {<<"5">>, <<",">>}, {<<"2">>, <<",">>}>>
\* Tier labels that occur in one account section.
MaxTierLabels == 2
TierMatches ==
    {NoMatch} \cup {Match(<<a>>) : a \in GroupTexts[1]}
        \cup {Match(<<a, b>>) : a \in GroupTexts[1], b \in GroupTexts[2]}
        \cup {Match(<<a, b, c>>) :
                a \in GroupTexts[1], b \in GroupTexts[2], c \in GroupTexts[3]}
\* The sections of the runs: at most MaxTierLabels labels occur.
TierSections ==
    LET labels == {S \in SUBSET TierKeys : Cardinality(S) <= MaxTierLabels}
        found == UNION {[S -> TierMatches \ {NoMatch}] : S \in labels}
    IN  {[k \in TierKeys |-> IF k \in DOMAIN f THEN f[k] ELSE NoMatch] : f \in found}

---------------------------------------------------------------------------
\* Effective dates (parse_effective_date of the three scrapers).  A text is
\* the sequence of its date mentions, in reading order:
\*   named    "<lead> 24. oktober 2025": a day, a period, a word and a year,
\*            after the lead "gildir" ("gildir fra", "tekur gildi") or none
\*   numeric  "24.10.2025"
\* Month names are written in ASCII (the source spells "okt\'ober").

Named(lead, day, word, year) ==
    [t |-> "match", kind |-> "named", lead |-> lead, day |-> day, word |-> word, month |-> 0,
     year |-> year]
Numeric(day, month, year) ==
    [t |-> "match", kind |-> "numeric", lead |-> "", day |-> day, word |-> "", month |-> month,
     year |-> year]

months_icelandic ==
    ("januar" :> 1) @@ ("februar" :> 2) @@ ("mars" :> 3) @@ ("april" :> 4) @@
    ("mai" :> 5) @@ ("juni" :> 6) @@ ("juli" :> 7) @@ ("agust" :> 8) @@
    ("september" :> 9) @@ ("oktober" :> 10) @@ ("november" :> 11) @@
    ("desember" :> 12)

\* str.lower() on the words of the texts.
lower(word) ==
    CASE word = "Oktober" -> "oktober"
      [] word = "Februar" -> "februar"
      [] OTHER -> word

IsLeap(year) == (year % 4 = 0 /\ year % 100 # 0) \/ year % 400 = 0
DaysInMonth(year, month) ==
    IF month = 2 THEN (IF IsLeap(year) THEN 29 ELSE 28)
    ELSE IF month \in {4, 6, 9, 11} THEN 30
    ELSE 31

\* datetime(year, month, day): the date, or ValueError.
datetime(year, month, day) ==
    IF /\ year \in 1..9999
       /\ month \in 1..12
       /\ day \in 1..DaysInMonth(year, month)
    THEN Returned([year |-> year, month |-> month, day |-> day])
    ELSE Raised("ValueError")

\* date.strftime('%Y-%m-%d') for a year of four digits.
TwoDigits(n) == IF n < 10 THEN "0" \o ToString(n) ELSE ToString(n)
strftime(date) ==
    Str(ToString(date.year) \o "-" \o TwoDigits(date.month) \o "-" \o TwoDigits(date.day))

\* re.search: the first mention of the text among `hits`, the positions the
\* pattern matches, or None.
Search(text, hits) ==
    IF hits # {}
    THEN text[CHOOSE i \in hits : \A j \in hits : i <= j]
    ELSE Null

\* r'(\d{1,2})\.\s*(\w+)\s+(\d{4})'
NamedPattern(m) == m.kind = "named"
\* r'(\d{1,2})\.(\d{1,2})\.(\d{4})'
NumericPattern(m) == m.kind = "numeric"
\* r"(?:gildir|tekur\s+gildi)\s+(?:fra\s+)?(\d{1,2})\.\s*(\w+)\s+(\d{4})"
GildirPattern(m) == m.kind = "named" /\ m.lead = "gildir"

\* The body shared by the scrapers for a match with a month name: the ISO
\* date, or None when the word is no month or the date does not exist.
named_date(match) ==
    IF IsNone(match) THEN Null
    ELSE LET month_name == lower(match.word) IN
         IF month_name \notin DOMAIN months_icelandic THEN Null
         ELSE LET date == datetime(match.year, months_icelandic[month_name], match.day)
              IN  IF date.raised THEN Null ELSE strftime(date.value)

\* LandsbankinScraper.parse_effective_date (landsbankinn.py 83-107).
Landsbankinn_parse_effective_date(text) ==
    named_date(Search(text, {i \in DOMAIN text : NamedPattern(text[i])}))

\* ArionBankiScraper.parse_effective_date (arionbanki.py 168-210) on a text:
\* the numeric format first, then the month names.
Arion_parse_effective_date(text) ==
    LET match == Search(text, {i \in DOMAIN text : NumericPattern(text[i])})
        date == IF IsNone(match) THEN Raised("ValueError")
                ELSE datetime(match.year, match.month, match.day)
    IN  IF ~date.raised THEN strftime(date.value)
        ELSE named_date(Search(text, {i \in DOMAIN text : NamedPattern(text[i])}))

\* IslandsbankiScraper.parse_effective_date (islandsbanki.py 157-212): the
\* "gildir" pattern, then any day-month-year, then today's date.
Islandsbanki_parse_effective_date(text, utcnow) ==
    LET first == named_date(Search(text, {i \in DOMAIN text : GildirPattern(text[i])}))
        fallback == named_date(Search(text, {i \in DOMAIN text : NamedPattern(text[i])}))
    IN  IF ~IsNone(first) THEN first
        ELSE IF ~IsNone(fallback) THEN fallback
        ELSE strftime(utcnow)

\* Mentions of the texts of the runs.
MaxMentions == 2
DateDays == {24, 29, 31}
DateWords == {"oktober", "Oktober", "februar", "grein"}
DateYears == {2024, 2025}
Mentions ==
    {Named(l, d, w, y) : l \in {"", "gildir"}, d \in DateDays, w \in DateWords,
                         y \in DateYears}
    \cup {Numeric(d, m, 2025) : d \in {24, 31}, m \in {2, 10, 13}}
DateTexts == UNION {[1..n -> Mentions] : n \in 0..MaxMentions}
\* The days the run may take place.
Todays == {[year |-> 2025, month |-> 11, day |-> 1], [year |-> 2026, month |-> 2, day |-> 28]}

---------------------------------------------------------------------------
\* Deterministic candidates and provider answers of the pipeline runs.

\* The scraper whose run is modelled (arionbanki.py 31-32).
bank_name == Str("Arion banki")
bank_id == Str("arionbanki")

\* The leaves ArionBankiScraper.parse_rates_from_pdf fills with parse_rate,
\* in the order of the code, and the effective date (arionbanki.py 243-315,
\* 347).  A leaf is the matched rate, or None when its pattern did not match.
ArionFields ==
    <<"almennir", "ibudasparnadur",
      "indexed.variable_ibudalan_i", "indexed.variable_ibudalan_ii",
      "indexed.variable_ibudalan_iii", "indexed.fixed_3yr_ibudalan_i",
      "indexed.fixed_3yr_ibudalan_ii",
      "unindexed.variable_ibudalan_i", "unindexed.variable_ibudalan_ii",
      "kjor_electric_50_under", "kjor_electric_50_60",
      "yfirdrattarlan_einstaklinga", "framfaerslulan",
      "greidsludreifing", "penalty_interest", "effective_date">>

\* ArionBankiScraper.parse_rates_from_pdf and the effective date
\* (arionbanki.py 223-317, 346-347).  `matched` are the fields whose pattern
\* matched; `tiers` tells whether the tier patterns of Fridindareikningur and
\* Voxtur 30 matched (their mappings are added only when they did).  Keys
\* are written in ASCII (the source spells one "framfaerslul\'an").
ArionRates(matched, tiers) ==
    LET leaf(f) == IF f \in matched THEN Num(1) ELSE Null
        fridindar == Dict([k \in {"tier_0_1m", "tier_1m_5m", "tier_5m_20m",
                                  "tier_20m_100m", "tier_100m_plus"} |-> Num(1)])
        voxtur_30 == Dict([k \in {"tier_0_5m", "tier_5m_20m", "tier_20m_50m",
                                  "tier_50m_plus"} |-> Num(1)])
        sparireikningar ==
            Dict([k \in {"ibudasparnadur"} \cup
                        (IF tiers THEN {"fridindarreikningur", "voxtur_30"} ELSE {}) |->
                CASE k = "fridindarreikningur" -> fridindar
                  [] k = "voxtur_30" -> voxtur_30
                  [] OTHER -> leaf("ibudasparnadur")])
        deposits ==
            Dict([k \in {"veltureikningar", "sparireikningar", "foreign_currency"} |->
                CASE k = "veltureikningar" -> Dict([j \in {"almennir"} |-> leaf("almennir")])
                  [] k = "sparireikningar" -> sparireikningar
                  [] OTHER -> EmptyDict])
        mortgages ==
            Dict([k \in {"indexed", "unindexed"} |->
                IF k = "indexed"
                THEN Dict([j \in {"variable_ibudalan_i", "variable_ibudalan_ii",
                                  "variable_ibudalan_iii", "fixed_3yr_ibudalan_i",
                                  "fixed_3yr_ibudalan_ii"} |->
                        CASE j = "variable_ibudalan_i" -> leaf("indexed.variable_ibudalan_i")
                          [] j = "variable_ibudalan_ii" -> leaf("indexed.variable_ibudalan_ii")
                          [] j = "variable_ibudalan_iii" -> leaf("indexed.variable_ibudalan_iii")
                          [] j = "fixed_3yr_ibudalan_i" -> leaf("indexed.fixed_3yr_ibudalan_i")
                          [] OTHER -> leaf("indexed.fixed_3yr_ibudalan_ii")])
                ELSE Dict([j \in {"variable_ibudalan_i", "variable_ibudalan_ii"} |->
                        IF j = "variable_ibudalan_i"
                        THEN leaf("unindexed.variable_ibudalan_i")
                        ELSE leaf("unindexed.variable_ibudalan_ii")])])
    IN
    Dict([k \in {"bank_name", "deposits", "mortgages", "vehicle_loans", "overdrafts",
                 "credit_cards", "penalty_interest", "effective_date"} |->
        CASE k = "bank_name" -> bank_name
          [] k = "deposits" -> deposits
          [] k = "mortgages" -> mortgages
          [] k = "vehicle_loans" ->
                Dict([j \in {"kjor_electric_50_under", "kjor_electric_50_60"} |-> leaf(j)])
          [] k = "overdrafts" ->
                Dict([j \in {"yfirdrattarlan_einstaklinga", "framfaerslulan"} |-> leaf(j)])
          [] k = "credit_cards" -> Dict([j \in {"greidsludreifing"} |-> leaf(j)])
          [] k = "penalty_interest" -> leaf("penalty_interest")
          [] OTHER -> IF "effective_date" \in matched THEN Str("2025-10-24") ELSE Null])

\* The candidates of the runs: the first n patterns did not match, the
\* remaining ones did, with and without the tier mappings.
ParsedCandidates ==
    {ArionRates({ArionFields[i] : i \in (n + 1)..Len(ArionFields)}, tiers) :
        n \in 0..Len(ArionFields), tiers \in BOOLEAN}

\* ---- Landsbankinn: LandsbankinScraper.parse_rates over parser.py ----
\* `m` tells whether the patterns of the section matched: a leaf is the
\* matched rate or None, and a mapping filled by an `if rates` branch holds
\* its keys only when they matched.  Keys are written in ASCII.

Fill(keys, v) == Dict([k \in keys |-> v])
rate_leaf(m) == IF m THEN Num(1) ELSE Null

\* InterestRateParser._extract_two_column_rates (parser.py 338-347).
_extract_two_column_rates(m) == Fill({"indexed", "unindexed"}, rate_leaf(m))

\* The tier lines of a tiered account when they are in the text.
TieredSample ==
    [k \in TierKeys |->
        IF k = "tier_0_1m" THEN Match(<< <<"1", ",", "5">> >>)
        ELSE IF k = "tier_1m_5m" THEN Match(<< <<"5">>, <<"1", ",", "5">> >>)
        ELSE NoMatch]

\* InterestRateParser.parse_deposit_accounts (parser.py 104-171).
parse_deposit_accounts(m) ==
    LET tiered == _parse_tiered_accounts(m, TieredSample)
        veltureikningar ==
            Dict([k \in {"almennir_veltureikningar", "einkareikningar",
                         "namu_klassareikningar", "vordureikningar"} |->
                IF k = "vordureikningar" THEN Fill({"tier_1", "tier_2"}, rate_leaf(m))
                ELSE rate_leaf(m)])
        sparireikningar ==
            Dict([k \in {"kjorbok", "vaxtareikningur", "vaxtareikningur_vardan_60",
                         "vaxtareikningur_30", "fastvaxtareikningar",
                         "sparireikningur_3", "sparireikningur_12",
                         "sparireikningur_24", "landsbok", "orlofsreikningar",
                         "framti_argrunnur", "fasteignagrunnur", "lifeyrisbok"}
                        \cup (IF m THEN {"markmi_app"} ELSE {}) |->
                CASE k \in {"vaxtareikningur", "vaxtareikningur_vardan_60",
                            "vaxtareikningur_30"} -> tiered
                  [] k = "fastvaxtareikningar" ->
                        Fill({"3_months", "6_months", "12_months", "24_months"},
                             rate_leaf(m))
                  [] k \in {"framti_argrunnur", "fasteignagrunnur", "lifeyrisbok"} ->
                        _extract_two_column_rates(m)
                  [] k = "markmi_app" -> Fill({"unindexed", "indexed"}, Num(1))
                  [] OTHER -> rate_leaf(m)])
        foreign_currency ==
            Fill(IF m THEN {"USD", "GBP", "CAD", "DKK", "NOK", "SEK", "CHF", "JPY",
                            "EUR", "PLN"} ELSE {},
                 Fill({"unbound", "3_months", "6_months"}, Num(1)))
    IN  Dict(("veltureikningar" :> veltureikningar)
                @@ ("sparireikningar" :> sparireikningar)
                @@ ("foreign_currency" :> foreign_currency))

\* InterestRateParser.parse_mortgage_loans (parser.py 173-244).
parse_mortgage_loans(m) ==
    LET old_loans == Fill({"grunnlan_up_to_70", "vibotar_70_80_85"}, rate_leaf(m))
        fixed_rates ==
            Fill(IF m THEN {"up_to_55_ltv", "up_to_65_ltv", "up_to_75_ltv",
                            "up_to_80_85_ltv"} ELSE {},
                 Fill({"1_year", "3_year", "5_year"}, Num(1)))
        variable_rates ==
            Fill(IF m THEN {"up_to_85_ltv"} ELSE {},
                 Fill({"fixed_premium", "total_rate"}, Num(1)))
    IN  Dict(("unindexed" :> Dict(("fixed_rates" :> fixed_rates)
                                    @@ ("variable_rates" :> variable_rates)
                                    @@ ("old_loans" :> old_loans)))
                @@ ("indexed" :> Dict(("fixed_rates" :>
                                            Fill({"up_to_75_ltv", "up_to_85_ltv"},
                                                 rate_leaf(m)))
                                        @@ ("old_loans" :> old_loans))))

\* InterestRateParser.parse_vehicle_loans (parser.py 246-272).
parse_vehicle_loans(m) ==
    LET by_ltv == Fill(IF m THEN {"ltv_under_51", "ltv_51_69", "ltv_70_80"} ELSE {},
                       Num(1))
    IN  Dict(("electric_vehicles" :> by_ltv) @@ ("other_vehicles" :> by_ltv))

\* InterestRateParser.parse_bonds_and_loan_agreements (parser.py 274-298).
parse_bonds_and_loan_agreements(m) ==
    Dict([k \in {"kjorvaxtaflokkar", "eldri_lan_an_kjorvaxta", "kjor_lan_spkef",
                 "kjor_lan_vestmannaeyja", "tm_kjorvextir", "tm_bilalan",
                 "tm_onnur_lan"} |->
        IF k = "kjorvaxtaflokkar"
        THEN Fill(IF m THEN {"kjorvaxtaflokkur_0", "kjorvaxtaflokkur_1",
                             "kjorvaxtaflokkur_2", "kjorvaxtaflokkur_3",
                             "kjorvaxtaflokkur_4", "kjorvaxtaflokkur_5",
                             "kjorvaxtaflokkur_6", "kjorvaxtaflokkur_7",
                             "kjorvaxtaflokkur_8", "kjorvaxtaflokkur_9"} ELSE {},
                  Fill({"indexed", "unindexed"}, Num(1)))
        ELSE _extract_two_column_rates(m)])

\* InterestRateParser.parse_short_term_loans (parser.py 300-318).
parse_short_term_loans(m) ==
    Dict(("overdrafts" :>
                Fill({"fyrirtaekja", "einstaklinga", "vordufelaga_high",
                      "vordufelaga_low", "naman_menntasjo_ur", "naman_almennir"},
                     rate_leaf(m)))
            @@ ("credit_cards" :> Fill({"greidsludreifing"}, rate_leaf(m))))

\* The sections of LandsbankinScraper.parse_rates, in the order of the code.
LandsbankinnSections ==
    <<"effective_date", "deposits", "mortgages", "vehicle_loans", "bonds_and_loans",
      "short_term_loans", "penalty_interest">>

\* LandsbankinScraper.parse_rates (landsbankinn.py 109-126): `matched` are
\* the sections whose patterns matched.
parse_rates(matched) ==
    Dict([k \in {"bank_name"} \cup {LandsbankinnSections[i] : i \in DOMAIN LandsbankinnSections} |->
        CASE k = "bank_name" -> Str("Landsbankinn")
          [] k = "effective_date" ->
                IF k \in matched THEN Str("2025-10-24") ELSE Null
          [] k = "deposits" -> parse_deposit_accounts(k \in matched)
          [] k = "mortgages" -> parse_mortgage_loans(k \in matched)
          [] k = "vehicle_loans" -> parse_vehicle_loans(k \in matched)
          [] k = "bonds_and_loans" -> parse_bonds_and_loan_agreements(k \in matched)
          [] k = "short_term_loans" -> parse_short_term_loans(k \in matched)
          [] OTHER -> rate_leaf(k \in matched)])

\* The candidates of Landsbankinn: the first n sections did not match.
LandsbankinnCandidates ==
    {parse_rates({LandsbankinnSections[i] : i \in (n + 1)..Len(LandsbankinnSections)}) :
        n \in 0..Len(LandsbankinnSections)}

\* ---- Islandsbanki: the record built from the tables of the page ----

\* The keys under which extract_tables_by_keywords groups the tables
\* (islandsbanki.py 268-274, 343-359).
DepositTables ==
    {"veltureikningar", "spar_indexed", "spar_unindexed", "spar_general",
     "foreign_currency"}
LoanTables ==
    {"mortgages_indexed", "mortgages_unindexed", "mortgages_generic", "overdrafts",
     "credit_cards", "vehicle_loans"}

\* IslandsbankiScraper.parse_table_rows / merge_table_data (islandsbanki.py
\* 143-152, 214-253) on tables that hold rows: one rate, or a list of rates.
table_rows == Dict(("vextir" :> Num(1)) @@ ("vextir_2" :> List(<<Num(1), Num(2)>>)))

\* IslandsbankiScraper.parse_deposits (islandsbanki.py 255-307): `tables` are
\* the keys that have tables.
parse_deposits(tables) ==
    LET rows(key) == IF key \in tables THEN table_rows ELSE EmptyDict
        indexed == rows("spar_indexed")
        unindexed == rows("spar_unindexed")
        other == IF /\ "spar_general" \in tables
                    /\ IsEmptyDict(indexed) /\ IsEmptyDict(unindexed)
                 THEN table_rows ELSE EmptyDict
    IN  Dict(("veltureikningar" :> rows("veltureikningar"))
                @@ ("sparireikningar" :> Dict(("indexed" :> indexed)
                                                @@ ("unindexed" :> unindexed)
                                                @@ ("other" :> other)))
                @@ ("foreign_currency" :> rows("foreign_currency")))

\* IslandsbankiScraper.parse_loans (islandsbanki.py 329-386); `penalty` is
\* what parse_penalty_interest found.
parse_loans(tables, penalty) ==
    LET rows(key) == IF key \in tables THEN table_rows ELSE EmptyDict
        indexed == rows("mortgages_indexed")
        unindexed == IF \/ "mortgages_unindexed" \in tables
                        \/ (IsEmptyDict(indexed) /\ "mortgages_generic" \in tables)
                     THEN table_rows ELSE EmptyDict
    IN  Dict(("mortgages" :> Dict(("indexed" :> indexed) @@ ("unindexed" :> unindexed)))
                @@ ("overdrafts" :> rows("overdrafts"))
                @@ ("credit_cards" :> rows("credit_cards"))
                @@ ("vehicle_loans" :> rows("vehicle_loans"))
                @@ ("penalty_interest" :> penalty))

\* rate_data of IslandsbankiScraper.scrape_rates (islandsbanki.py 401-413).
IslandsbankiRates(tables, penalty, date) ==
    LET deposits == parse_deposits(tables)
        loans == parse_loans(tables, penalty)
    IN  Dict(("bank_name" :> Str("Islandsbanki"))
                @@ ("effective_date" :> date)
                @@ ("deposits" :> deposits)
                @@ ("mortgages" :> loans.d["mortgages"])
                @@ ("vehicle_loans" :> Get(loans, "vehicle_loans"))
                @@ ("overdrafts" :> loans.d["overdrafts"])
                @@ ("credit_cards" :> loans.d["credit_cards"])
                @@ ("penalty_interest" :> loans.d["penalty_interest"]))

\* The candidates of Islandsbanki: any set of tables, the penalty rate found
\* or not; the date is the one of the page.
IslandsbankiCandidates ==
    {IslandsbankiRates(tables, penalty, Str("2025-10-24")) :
        tables \in SUBSET (DepositTables \cup LoanTables), penalty \in {Null, Num(1)}}

\* The records an extractor returns when every pattern and table matched.
FullyPopulated ==
    {ArionRates({ArionFields[i] : i \in DOMAIN ArionFields}, TRUE),
     parse_rates({LandsbankinnSections[i] : i \in DOMAIN LandsbankinnSections}),
     IslandsbankiRates(DepositTables \cup LoanTables, Num(1), Str("2025-10-24"))}

\* A JSON object the model may answer, in the structure the prompt asks for
\* (ai_processor.py 117-163): rates the candidate may miss or also hold.
AIObject ==
    Dict([k \in {"penalty_interest", "mortgages"} |->
        IF k = "penalty_interest" THEN Num(2)
        ELSE Dict([j \in {"indexed"} |->
                Dict([i \in {"variable_ibudalan_i", "variable_ibudalan_ii"} |-> Num(2)])])])

Answers ==
    {ProviderRaises, NoContent, NotJson("none"), NotJson("json")}
    \cup {JsonText(f, AIObject) : f \in {"none", "json", "plain"}}
    \cup {JsonText("none", v) : v \in {List(<<Num(2)>>), Null, Num(2)}}

\* if null_count < 5   (base.py 83)
NULL_GATE == 5
\* Values of the environment variable AI_NULL_THRESHOLD (config.py 109);
\* 3 is its default.
ThresholdChoices == {3, 5, 7}

---------------------------------------------------------------------------
\* The scrapers: scrape_rates of the three banks.

\* Python truth value of a JSON value or a record.
Truthy(x) ==
    CASE IsNone(x) -> FALSE
      [] IsDict(x) -> DOMAIN x.d # {}
      [] IsList(x) -> x.l # <<>>
      [] x.t = "num" -> x.v # 0
      [] x.t = "str" -> x.s # ""
      [] OTHER -> TRUE

\* BankScraper.enhance_with_ai (base.py 56-104) as a function of the
\* candidate and of the provider's answer, under the configuration of the
\* state: the record it returns, and whether the raw text was sent to the
\* AI processor.
enhance_outcome(candidate, answer) ==
    IF ~use_ai_parsing THEN [data |-> candidate, sent |-> FALSE]
    ELSE IF ai_env = "import_error" THEN [data |-> candidate, sent |-> FALSE]
    ELSE IF ~OPENROUTER_API_KEY \/ ~ENABLE_AI_PARSING
        THEN [data |-> candidate, sent |-> FALSE]
    ELSE IF _count_nulls(candidate) < NULL_GATE THEN [data |-> candidate, sent |-> FALSE]
    ELSE IF ai_env = "init_error" THEN [data |-> candidate, sent |-> FALSE]
    ELSE [data |-> _merge_data(candidate, parse_bank_data(answer).value),
          sent |-> TRUE]

\* What scrape_rates returns, with what it ran on the way.
Scraped(record, url, extracted, sent) ==
    [rate_data |-> record, source_url |-> url, extractor_ran |-> extracted,
     ai_sent |-> sent]
\* return None, None
ScrapedNothing == Scraped(Null, Null, FALSE, FALSE)

\* The stages of the retrieval of a PDF: the URL was not found, the download
\* gave nothing, no text came out of the PDF, or all three succeeded.
PdfStages == {"no_url", "no_content", "no_text", "ok"}
\* The stages of the retrieval of the page of Islandsbanki: the request or
\* the parse of the page raised, or both succeeded.
PageStages == {"error", "ok"}

PDF_URL == Str("https://bank.example/vaxtatafla.pdf")
API_URL == Str("https://www.arionbanki.is/api/interest-rates")
BASE_URL == Str("https://www.islandsbanki.is/is/grein/vaxtatafla")

\* LandsbankinScraper.scrape_rates (landsbankinn.py 128-156).
Landsbankinn_scrape_rates(stage, candidate, answer) ==
    IF stage \in {"no_url", "no_content", "no_text"} THEN ScrapedNothing
    ELSE LET enhanced == enhance_outcome(candidate, answer)
         IN  Scraped(enhanced.data, PDF_URL, TRUE, enhanced.sent)

\* ArionBankiScraper.scrape_rates (arionbanki.py 319-352): the body of the
\* API when it is truthy, else the PDF.
Arion_scrape_rates(api, stage, candidate, answer) ==
    IF Truthy(api) THEN Scraped(api, API_URL, FALSE, FALSE)
    ELSE IF stage \in {"no_url", "no_content", "no_text"} THEN ScrapedNothing
    ELSE LET enhanced == enhance_outcome(candidate, answer)
         IN  Scraped(enhanced.data, PDF_URL, TRUE, enhanced.sent)

\* IslandsbankiScraper.scrape_rates (islandsbanki.py 391-420).
Islandsbanki_scrape_rates(stage, candidate) ==
    IF stage = "error" THEN ScrapedNothing
    ELSE Scraped(candidate, BASE_URL, TRUE, FALSE)

\* The registry (banks/__init__.py 39-43), in its order.
AVAILABLE_BANKS == <<"landsbankinn", "arionbanki", "islandsbanki">>
SupportedBanks == {AVAILABLE_BANKS[i] : i \in DOMAIN AVAILABLE_BANKS}

\* scraper.scrape_rates() of the scraper of `bank`.
scrape_rates(bank, api, stage, candidate, answer) ==
    CASE bank = "landsbankinn" -> Landsbankinn_scrape_rates(stage, candidate, answer)
      [] bank = "arionbanki" -> Arion_scrape_rates(api, stage, candidate, answer)
      [] OTHER -> Islandsbanki_scrape_rates(stage, candidate)

\* Bodies the API of Arion may answer (response.json()): none (the request
\* failed), an empty object, an object of rates, a list.
ApiBodies ==
    {Null, EmptyDict, Dict(("rates" :> List(<<Num(1)>>))), List(<<Num(1)>>)}

\* Answers of the provider in the scrapes.
ScrapeAnswers == {ProviderRaises, JsonText("json", AIObject), JsonText("none", List(<<Num(2)>>))}

\* The stages and the candidates of a scraper.
StagesOf(bank) == IF bank = "islandsbanki" THEN PageStages ELSE PdfStages
CandidatesOf(bank) ==
    CASE bank = "landsbankinn" -> LandsbankinnCandidates
      [] bank = "arionbanki" -> ParsedCandidates
      [] OTHER -> IslandsbankiCandidates

---------------------------------------------------------------------------
\* The cache (firestore_manager.py).  A document is a record; the collection
\* is the sequence of its documents, most recent first, which is the order
\* of the queries by last_updated.  Times are hours.

Bool(b) == [t |-> "bool", b |-> b]
\* A datetime or a Firestore timestamp.
Time(n) == [t |-> "time", at |-> n]
\* strftime("%Y-%m-%dT%H:%M:%SZ") of a time.
IsoTime(n) == Str("T" \o ToString(n) \o ":00:00Z")

Doc(bank, name, date, stamp, record, url) ==
    [t |-> "doc", bank_id |-> bank, bank_name |-> name, effective_date |-> date,
     last_updated |-> stamp, data |-> record, source_url |-> url]

\* Config.CACHE_DURATION_HOURS (config.py 104), its default.
CACHE_DURATION_HOURS == 24
\* keep_latest of RateService.__init__ (rate_service.py 44).
KEEP_LATEST == 5

\* A plausible slip: a document expires as soon as it is
\* CACHE_DURATION_HOURS old (>= for >).
get_cached_rates_expires_early(dbs, st, now, bank) ==
    IF dbs # "ok" THEN Null
    ELSE LET mine == {i \in DOMAIN st : st[i].bank_id = bank} IN
         IF mine = {} THEN Null
         ELSE LET doc == st[CHOOSE i \in mine : \A j \in mine : i <= j] IN
              IF IsNone(doc.last_updated) THEN Null
              ELSE IF now - doc.last_updated.at >= CACHE_DURATION_HOURS THEN Null
              ELSE doc

\* FirestoreManager.get_cached_rates (firestore_manager.py 40-105): the most
\* recent document of the bank when it is stamped and not expired, else
\* None; without a client, or when the query raises, None.
get_cached_rates(dbs, st, now, bank) ==
    IF dbs # "ok" THEN Null
    ELSE LET mine == {i \in DOMAIN st : st[i].bank_id = bank} IN
         IF mine = {} THEN Null
         ELSE LET doc == st[CHOOSE i \in mine : \A j \in mine : i <= j] IN
              IF IsNone(doc.last_updated) THEN Null
              ELSE IF now - doc.last_updated.at > CACHE_DURATION_HOURS THEN Null
              ELSE doc

\* A plausible slip: the document is written without last_updated.
save_rates_without_stamp(dbs, st, now, record, url, bank, name) ==
    IF dbs # "ok" THEN [ok |-> FALSE, store |-> st]
    ELSE [ok |-> TRUE,
          store |-> <<Doc(bank, name, Get(record, "effective_date"), Null,
                          record, url)>> \o st]

\* FirestoreManager.save_rates (firestore_manager.py 107-145): the document
\* is added with the time of the server, or nothing is written.
save_rates(dbs, st, now, record, url, bank, name) ==
    IF dbs # "ok" THEN [ok |-> FALSE, store |-> st]
    ELSE [ok |-> TRUE,
          store |-> <<Doc(bank, name, Get(record, "effective_date"), Time(now),
                          record, url)>> \o st]

\* FirestoreManager.clear_old_caches (firestore_manager.py 147-185).
clear_old_caches(dbs, st, keep_latest) ==
    IF dbs # "ok" THEN st
    ELSE IF Len(st) <= keep_latest THEN st
    ELSE SubSeq(st, 1, keep_latest)

\* A plausible slip: the flag `cached` is not taken from from_cache.
format_response_never_cached(doc, from_cache, now) ==
    Dict(("bank_id" :> doc.bank_id) @@ ("bank_name" :> doc.bank_name)
            @@ ("effective_date" :> doc.effective_date)
            @@ ("last_updated" :>
                    IF IsNone(doc.last_updated) THEN IsoTime(now)
                    ELSE IsoTime(doc.last_updated.at))
            @@ ("data" :> doc.data)
            @@ ("source_url" :> doc.source_url)
            @@ ("cached" :> Bool(FALSE)))

\* FirestoreManager.format_response (firestore_manager.py 202-248) on a
\* mapping that holds "data": a cached document, or the formatted payload of
\* a fresh fetch, which has no last_updated.
format_response(doc, from_cache, now) ==
    LET rates == doc.data
        meta(value, key) ==
            IF ~Truthy(value) /\ Truthy(rates) /\ IsDict(rates)
            THEN Get(rates, key) ELSE value
    IN  Dict(("bank_id" :> meta(doc.bank_id, "bank_id"))
                @@ ("bank_name" :> meta(doc.bank_name, "bank_name"))
                @@ ("effective_date" :> doc.effective_date)
                @@ ("last_updated" :>
                        IF IsNone(doc.last_updated) THEN IsoTime(now)
                        ELSE IsoTime(doc.last_updated.at))
                @@ ("data" :> rates)
                @@ ("source_url" :> doc.source_url)
                @@ ("cached" :> Bool(from_cache)))

---------------------------------------------------------------------------
\* The service (services/rate_service.py).

\* dict.setdefault(key, value).
SetDefault(x, key, value) ==
    IF key \in DOMAIN x.d THEN x ELSE Dict(x.d @@ (key :> value))

BankName(bank) ==
    CASE bank = "landsbankinn" -> Str("Landsbankinn")
      [] bank = "arionbanki" -> Str("Arion banki")
      [] OTHER -> Str("Islandsbanki")

\* bank_id.strip().lower() on the identifiers of the calls.
strip_lower(id) ==
    CASE id = " ArionBanki " -> "arionbanki"
      [] OTHER -> id

\* get_bank_scraper (banks/__init__.py 46-66): the scraper, here its
\* bank_id and bank_name, or ValueError.
get_bank_scraper(id) ==
    IF id \notin SupportedBanks THEN Raised("ValueError")
    ELSE [raised |-> FALSE, exc |-> "",
          value |-> [bank_id |-> id, bank_name |-> BankName(id)]]

\* A plausible slip: an unknown identifier falls back to the first bank.
_get_scraper_with_default(id) ==
    LET found == get_bank_scraper(strip_lower(id))
    IN  IF found.raised THEN get_bank_scraper(AVAILABLE_BANKS[1]) ELSE found

\* RateService._get_scraper (rate_service.py 99-110).
_get_scraper(id) ==
    LET found == get_bank_scraper(strip_lower(id))
    IN  IF found.raised THEN Raised("UnknownBankError") ELSE found

\* The element of a singleton: Only({e(x) : x \in {v}}) is e(v), with v
\* evaluated once.
Only(S) == CHOOSE x \in S : TRUE

\* A collaborator call, as the log records it.
Call(fn, bank) == [fn |-> fn, bank |-> bank]

\* A plausible slip: an empty scrape is passed on as an empty payload.
_scrape_without_check(a_scraper, scraped) ==
    LET record == IF IsDict(scraped.rate_data) THEN scraped.rate_data ELSE EmptyDict
        named == SetDefault(SetDefault(record, "bank_name", a_scraper.bank_name),
                            "bank_id", Str(a_scraper.bank_id))
    IN  [raised |-> FALSE, exc |-> "",
         value |-> IF Truthy(scraped.source_url)
                   THEN SetDefault(named, "source_url", scraped.source_url)
                   ELSE named]

\* RateService._scrape (rate_service.py 112-128) on what scrape_rates
\* returned: RateServiceError for an empty record; setdefault on a record
\* that is no mapping raises AttributeError.
_scrape(a_scraper, scraped) ==
    IF ~Truthy(scraped.rate_data) THEN Raised("RateServiceError")
    ELSE IF ~IsDict(scraped.rate_data) THEN Raised("AttributeError")
    ELSE LET named == SetDefault(SetDefault(scraped.rate_data,
                                            "bank_name", a_scraper.bank_name),
                                 "bank_id", Str(a_scraper.bank_id))
         IN  [raised |-> FALSE, exc |-> "",
              value |-> IF Truthy(scraped.source_url)
                        THEN SetDefault(named, "source_url", scraped.source_url)
                        ELSE named]

\* RateService._ensure_metadata (rate_service.py 155-158).
_ensure_metadata(resp, a_scraper) ==
    SetDefault(SetDefault(resp, "bank_id", Str(a_scraper.bank_id)),
               "bank_name", a_scraper.bank_name)

\* A plausible slip: the prune does not depend on the outcome of the save.
_persist_and_format_always_prunes(a_scraper, payload, dbs, st, now) ==
    LET url == Get(payload, "source_url")
        saved == save_rates(dbs, st, now, payload, IF Truthy(url) THEN url ELSE Str(""),
                            Str(a_scraper.bank_id), a_scraper.bank_name)
        formatted == Doc(Str(a_scraper.bank_id), a_scraper.bank_name,
                         Get(payload, "effective_date"), Null, payload, url)
    IN  [response |-> _ensure_metadata(format_response(formatted, FALSE, now), a_scraper),
         store |-> clear_old_caches(dbs, saved.store, KEEP_LATEST),
         log |-> <<Call("save_rates", a_scraper.bank_id),
                   Call("clear_old_caches", a_scraper.bank_id)>>]

\* A plausible slip: the collection is pruned before the record is saved.
_persist_and_format_prunes_first(a_scraper, payload, dbs, st, now) ==
    LET url == Get(payload, "source_url")
        saved == save_rates(dbs, clear_old_caches(dbs, st, KEEP_LATEST), now, payload,
                            IF Truthy(url) THEN url ELSE Str(""),
                            Str(a_scraper.bank_id), a_scraper.bank_name)
        formatted == Doc(Str(a_scraper.bank_id), a_scraper.bank_name,
                         Get(payload, "effective_date"), Null, payload, url)
    IN  [response |-> _ensure_metadata(format_response(formatted, FALSE, now), a_scraper),
         store |-> saved.store,
         log |-> <<Call("clear_old_caches", a_scraper.bank_id),
                   Call("save_rates", a_scraper.bank_id)>>]

\* RateService._persist_and_format (rate_service.py 130-153): the response,
\* the store it leaves and the calls it made.
_persist_and_format(a_scraper, payload, dbs, st, now) ==
    LET url == Get(payload, "source_url")
        saved == save_rates(dbs, st, now, payload, IF Truthy(url) THEN url ELSE Str(""),
                            Str(a_scraper.bank_id), a_scraper.bank_name)
        formatted == Doc(Str(a_scraper.bank_id), a_scraper.bank_name,
                         Get(payload, "effective_date"), Null, payload, url)
    IN  [response |-> _ensure_metadata(format_response(formatted, FALSE, now), a_scraper),
         store |-> IF saved.ok THEN clear_old_caches(dbs, saved.store, KEEP_LATEST)
                   ELSE saved.store,
         log |-> <<Call("save_rates", a_scraper.bank_id)>>
                    \o (IF saved.ok THEN <<Call("clear_old_caches", a_scraper.bank_id)>>
                        ELSE <<>>)]

\* What the scrape of a bank meets: the stage its retrieval reaches, the
\* body of the API (Arion) and the candidate its patterns yield.
Site(stage, api, candidate) == [stage |-> stage, api |-> api, candidate |-> candidate]
NoSite == Site("", Null, Null)

\* What a call of the service gives: the response or the exception, the
\* store it leaves, and the collaborator calls it made.
Outcome(resp, exc, st, log) == [response |-> resp, raised |-> exc, store |-> st, log |-> log]

\* RateService.get_bank_rates (rate_service.py 57-74).
get_bank_rates(id, force, dbs, st, now, site, answer) ==
    LET found == _get_scraper(id) IN
    IF found.raised THEN Outcome(Null, found.exc, st, <<>>)
    ELSE
    LET a_scraper == found.value
        normalized_bank_id == a_scraper.bank_id
        cached == IF force THEN Null
                  ELSE get_cached_rates(dbs, st, now, Str(normalized_bank_id))
        read == IF force THEN <<>> ELSE <<Call("get_cached_rates", normalized_bank_id)>>
    IN  IF ~IsNone(cached)
        THEN Outcome(_ensure_metadata(format_response(cached, TRUE, now), a_scraper),
                     "", st, read)
        ELSE
        LET scrape_call == <<Call("scrape_rates", normalized_bank_id)>> IN
        Only({IF payload.raised
              THEN Outcome(Null, payload.exc, st, read \o scrape_call)
              ELSE LET kept == _persist_and_format(a_scraper, payload.value, dbs, st, now)
                   IN  Outcome(kept.response, "", kept.store,
                               read \o scrape_call \o kept.log) :
              payload \in {_scrape(a_scraper,
                                   scrape_rates(normalized_bank_id, site.api, site.stage,
                                                site.candidate, answer))}})

\* str(exc) of the errors of the service (rate_service.py 103, 119).
Message(exc, bank) ==
    IF exc = "RateServiceError"
    THEN Str("Failed to scrape rates for " \o BankName(bank).s)
    ELSE Str("Unknown bank: " \o bank \o ". Available banks: "
                \o "['landsbankinn', 'arionbanki', 'islandsbanki']")

\* {"bank_id": bank_id, "error": str(exc)}   (rate_service.py 85, 88)
ErrorEntry(bank, exc) ==
    Dict(("bank_id" :> Str(bank)) @@ ("error" :> Message(exc, bank)))

\* A plausible slip: the loop ends at the first bank that fails.
next_bank_stops_on_error(i, fetched) ==
    IF fetched.raised # "" THEN Len(AVAILABLE_BANKS) + 1 ELSE i + 1

\* The bank the loop of get_all_bank_rates goes on with (rate_service.py 80).
next_bank(i, fetched) == i + 1

\* The loop of RateService.get_all_bank_rates (rate_service.py 79-88) from
\* the i-th bank of the registry on: `acc` holds the entries made so far,
\* in order, the store, the calls made and the exception that escaped.
RECURSIVE all_bank_rates(_, _, _, _, _, _, _)
all_bank_rates(i, acc, force, dbs, now, site_of, answer) ==
    IF i > Len(AVAILABLE_BANKS) THEN acc
    ELSE
    LET bank == AVAILABLE_BANKS[i] IN
    Only({IF fetched.raised \notin {"", "UnknownBankError", "RateServiceError"}
          THEN [acc EXCEPT !.raised = fetched.raised, !.log = acc.log \o fetched.log]
          ELSE all_bank_rates(next_bank(i, fetched),
                  [banks |-> Append(acc.banks,
                          [bank_id |-> bank,
                           entry |-> IF fetched.raised = "" THEN fetched.response
                                     ELSE ErrorEntry(bank, fetched.raised)]),
                   store |-> fetched.store,
                   log |-> acc.log \o fetched.log,
                   raised |-> ""],
                  force, dbs, now, site_of, answer) :
          fetched \in {get_bank_rates(bank, force, dbs, acc.store, now, site_of[bank],
                                      answer)}})

\* RateService.get_all_bank_rates (rate_service.py 76-94).
get_all_bank_rates(force, dbs, st, now, site_of, answer) ==
    LET done == all_bank_rates(1, [banks |-> <<>>, store |-> st, log |-> <<>>,
                                   raised |-> ""],
                               force, dbs, now, site_of, answer)
    IN  IF done.raised # "" THEN Outcome(Null, done.raised, done.store, done.log)
        ELSE Outcome([t |-> "all", banks |-> done.banks,
                      available_banks |-> AVAILABLE_BANKS, fetched_at |-> IsoTime(now)],
                     "", done.store, done.log)

---------------------------------------------------------------------------
\* Idle values of the variable groups a specification does not use.

MergeIdle ==
    /\ original = Null /\ ai_record = Null /\ third = Null
    /\ merged = Null /\ merged_left = Null /\ merged_right = Null
    /\ mpc = "idle"

CountIdle ==
    /\ data = Null /\ null_count = 0 /\ ai_null_count = 0
    /\ cpc = "idle"

AIIdle ==
    /\ use_ai_parsing = FALSE /\ OPENROUTER_API_KEY = FALSE
    /\ ENABLE_AI_PARSING = FALSE /\ AI_NULL_THRESHOLD = 0
    /\ ai_env = "ok" /\ parsed_data = Null /\ provider = <<>>
    /\ calls = 0 /\ ai_data = Null /\ ai_raised = FALSE /\ parsed_nulls = 0
    /\ enhanced_data = Null /\ pc = "idle"

ScrapeIdle ==
    /\ scraper = "" /\ acquisition = "" /\ api_data = Null
    /\ rate_data = Null /\ source_url = Null
    /\ extractor_ran = FALSE /\ ai_sent = FALSE /\ spc = "idle"

ServiceIdle ==
    /\ db = "" /\ store = <<>> /\ clock = 0 /\ ncalls = 0
    /\ op = "" /\ requested = "" /\ force_refresh = FALSE /\ sites = <<>>
    /\ store_before = <<>> /\ call_log = <<>>
    /\ response = Null /\ raised = "" /\ vpc = "idle"
    /\ refreshed = <<>> /\ previous = Null

DateIdle ==
    /\ date_text = <<>> /\ today = Null /\ date_source = ""
    /\ effective_date = Null /\ dpc = "idle"

TierIdle ==
    /\ section_found = FALSE /\ tier_matches = <<>> /\ parsed_tiers = Null
    /\ tpc = "idle"

PageIdle ==
    /\ account_name = <<>> /\ normalized = <<>> /\ table = <<>> /\ row_result = <<>>
    /\ page_tables = <<>> /\ grouped = <<>> /\ combined = <<>>
    /\ pdf_text = <<>> /\ pdf_mortgages = <<>> /\ ppc = "idle"

ExtIdle == ScrapeIdle /\ ServiceIdle /\ DateIdle /\ TierIdle /\ PageIdle

---------------------------------------------------------------------------
\* SpecMerge: the reconciler applied to two and to three records.

MergeInit ==
    /\ original \in MergeRecords
    /\ ai_record \in MergeRecords
    /\ third \in MergeRecords
    /\ merged = Null /\ merged_left = Null /\ merged_right = Null
    /\ mpc = "start"
    /\ CountIdle /\ AIIdle /\ ExtIdle

\* enhanced_data = self._merge_data(parsed_data, ai_data)   (base.py 92)
Merge ==
    /\ mpc = "start"
    /\ merged' = _merge_data(original, ai_record)
    /\ mpc' = "merged"
    /\ UNCHANGED <<original, ai_record, third, merged_left, merged_right>>
    /\ UNCHANGED <<count_vars, ai_vars, ext_vars>>

\* The merged record reconciled with a third one, in both groupings.
MergeThird ==
    /\ mpc = "merged"
    /\ merged_left' = _merge_data(merged, third)
    /\ merged_right' = _merge_data(original, _merge_data(ai_record, third))
    /\ mpc' = "done"
    /\ UNCHANGED <<original, ai_record, third, merged>>
    /\ UNCHANGED <<count_vars, ai_vars, ext_vars>>

MergeNext == Merge \/ MergeThird

SpecMerge == MergeInit /\ [][MergeNext]_vars

---------------------------------------------------------------------------
\* SpecTemplate: the reconciler applied to a record of an extractor and the
\* empty structure of the AI processor, which is what enhance_with_ai merges
\* when the AI call failed.

ExtractorRecords == ParsedCandidates \cup LandsbankinnCandidates \cup IslandsbankiCandidates

TemplateInit ==
    /\ original \in ExtractorRecords
    /\ ai_record = _get_empty_structure
    /\ third = _get_empty_structure
    /\ merged = Null /\ merged_left = Null /\ merged_right = Null
    /\ mpc = "start"
    /\ CountIdle /\ AIIdle /\ ExtIdle

SpecTemplate == TemplateInit /\ [][MergeNext]_vars

---------------------------------------------------------------------------
\* SpecCount: the completeness evaluator applied to one value.

CountInit ==
    /\ data \in CountValues
    /\ null_count = 0 /\ ai_null_count = 0
    /\ cpc = "start"
    /\ MergeIdle /\ AIIdle /\ ExtIdle

\* null_count = self._count_nulls(parsed_data)   (base.py 80)
CountNulls ==
    /\ cpc = "start"
    /\ null_count' = _count_nulls(data)
    /\ cpc' = "counted"
    /\ UNCHANGED <<data, ai_null_count>>
    /\ UNCHANGED <<merge_vars, ai_vars, ext_vars>>

\* AIProcessor.enhance_parsed_data (ai_processor.py 88-105): counts, and
\* returns the data as it is.
enhance_parsed_data ==
    /\ cpc = "counted"
    /\ ai_null_count' = AIProcessor_count_nulls(data)
    /\ cpc' = "done"
    /\ UNCHANGED <<data, null_count>>
    /\ UNCHANGED <<merge_vars, ai_vars, ext_vars>>

CountNext == CountNulls \/ enhance_parsed_data

SpecCount == CountInit /\ [][CountNext]_vars

---------------------------------------------------------------------------
\* Spec: one run of BankScraper.enhance_with_ai (base.py 56-104) on a
\* deterministic candidate, with the configuration and the provider's
\* answers drawn by Init.

Init ==
    /\ use_ai_parsing \in BOOLEAN
    /\ OPENROUTER_API_KEY \in BOOLEAN
    /\ ENABLE_AI_PARSING \in BOOLEAN
    /\ AI_NULL_THRESHOLD \in ThresholdChoices
    /\ ai_env \in {"ok", "import_error", "init_error"}
    /\ parsed_data \in ParsedCandidates
    /\ provider \in [1..MaxAttempts -> Answers]
    /\ calls = 0 /\ ai_data = Null /\ ai_raised = FALSE /\ parsed_nulls = 0
    /\ enhanced_data = Null
    /\ pc = "start"
    /\ MergeIdle /\ CountIdle /\ ExtIdle

\* The run returns `result` having made `n` provider calls.
Return(result, n, ai, nulls) ==
    /\ enhanced_data' = result
    /\ calls' = n
    /\ ai_data' = ai
    /\ parsed_nulls' = nulls
    /\ pc' = "done"
    /\ UNCHANGED <<use_ai_parsing, OPENROUTER_API_KEY, ENABLE_AI_PARSING,
                   AI_NULL_THRESHOLD, ai_env, parsed_data, provider, ai_raised>>
    /\ UNCHANGED <<merge_vars, count_vars, ext_vars>>

\* if not self.use_ai_parsing: return parsed_data   (base.py 68-69)
EnhanceDisabled ==
    /\ pc = "start"
    /\ ~use_ai_parsing
    /\ Return(parsed_data, 0, Null, 0)

\* The imports of base.py 72-73 fail: except ImportError (base.py 99-101).
EnhanceImportError ==
    /\ pc = "start"
    /\ use_ai_parsing
    /\ ai_env = "import_error"
    /\ Return(parsed_data, 0, Null, 0)

\* No API key or AI parsing switched off (base.py 75-77).
EnhanceNotConfigured ==
    /\ pc = "start"
    /\ use_ai_parsing
    /\ ai_env # "import_error"
    /\ ~OPENROUTER_API_KEY \/ ~ENABLE_AI_PARSING
    /\ Return(parsed_data, 0, Null, 0)

\* The guards passed by a run that reaches the null count (base.py 68-80).
Configured ==
    /\ pc = "start"
    /\ use_ai_parsing
    /\ ai_env # "import_error"
    /\ OPENROUTER_API_KEY /\ ENABLE_AI_PARSING

\* Fewer than five nulls: the regex result is returned (base.py 80-85).
EnhanceSkip ==
    /\ Configured
    /\ _count_nulls(parsed_data) < NULL_GATE
    /\ Return(parsed_data, 0, Null, _count_nulls(parsed_data))

\* AIProcessor() raises: except Exception (base.py 88, 102-104).
EnhanceInitError ==
    /\ Configured
    /\ _count_nulls(parsed_data) >= NULL_GATE
    /\ ai_env = "init_error"
    /\ Return(parsed_data, 0, Null, _count_nulls(parsed_data))

\* The AI path (base.py 87-97): one call of parse_bank_data, which makes one
\* provider call, then the merge of its result into the candidate.
EnhanceWithAI ==
    /\ Configured
    /\ _count_nulls(parsed_data) >= NULL_GATE
    /\ ai_env = "ok"
    /\ LET r == parse_bank_data(provider[1]) IN
        /\ ~r.raised
        /\ Return(_merge_data(parsed_data, r.value), 1, r.value,
                  _count_nulls(parsed_data))

enhance_with_ai ==
    \/ EnhanceDisabled
    \/ EnhanceImportError
    \/ EnhanceNotConfigured
    \/ EnhanceSkip
    \/ EnhanceInitError
    \/ EnhanceWithAI

Next == enhance_with_ai

Spec == Init /\ [][Next]_vars

---------------------------------------------------------------------------
\* Properties of the AI fallback pipeline (Spec).

\* The answer is a JSON text (the claims' "valid JSON").
ValidJson(answer) == answer.kind = "text" /\ answer.valid
\* The answer is a JSON text whose top-level value is an object.
ValidObject(answer) == ValidJson(answer) /\ IsDict(answer.value)
\* The run took the AI path: parse_bank_data was called.
AICalled == pc = "done" /\ calls >= 1

\* The empty template annotated with the identity fields of the source.
EmptyTemplateWithIdentity ==
    Dict([k \in DOMAIN _get_empty_structure.d \cup {"bank_name", "bank_id"} |->
        IF k = "bank_name" THEN bank_name
        ELSE IF k = "bank_id" THEN bank_id
        ELSE _get_empty_structure.d[k]])

\* C3 (as claimed): with invalid JSON on attempts 1..N-1 and valid JSON on
\* attempt N <= max_retries (the MaxAttempts scripted answers),
\* parse_bank_data returns the value of attempt N; with every attempt invalid
\* the provider is called exactly max_retries times.
C3_BoundedRetry ==
    AICalled =>
        IF \E n \in 1..MaxAttempts : ValidJson(provider[n])
        THEN LET N == CHOOSE n \in 1..MaxAttempts :
                        /\ ValidJson(provider[n])
                        /\ \A m \in 1..(n - 1) : ~ValidJson(provider[m])
             IN  ai_data = provider[N].value /\ calls = N
        ELSE calls = MaxAttempts

\* C4 (as claimed): when the answers are invalid (empty, malformed, not an
\* object) or the provider call fails, parse_bank_data does not raise and
\* returns the empty template with bank_name and bank_id set.
C4_DegradeToTemplate ==
    (AICalled /\ \A n \in 1..MaxAttempts : ~ValidObject(provider[n])) =>
        /\ ~ai_raised
        /\ ai_data = EmptyTemplateWithIdentity

\* C5 (as claimed): whatever the provider answers, the value parse_bank_data
\* returns, which is the secondary handed to _merge_data, is a mapping.
C5_ResultIsMapping ==
    AICalled => IsDict(ai_data)

\* C6 (as claimed): when the provider is unavailable or fails (the call
\* raises, or the AI processor raises), enhance_with_ai returns a record equal
\* to parsed_data.
C6_ProviderFailureKeepsCandidate ==
    (/\ pc = "done"
     /\ use_ai_parsing
     /\ \/ ai_env # "ok"
        \/ (calls >= 1 /\ \A n \in 1..MaxAttempts : provider[n].kind = "raise"))
        => enhanced_data = parsed_data

\* C7 (as claimed): the provider is called only when the missing count of the
\* candidate is at or above Config.AI_NULL_THRESHOLD; below it no call is
\* made and the candidate is returned unchanged.
C7_GatedByConfigThreshold ==
    pc = "done" =>
        /\ calls >= 1 => _count_nulls(parsed_data) >= AI_NULL_THRESHOLD
        /\ _count_nulls(parsed_data) < AI_NULL_THRESHOLD =>
                (calls = 0 /\ enhanced_data = parsed_data)

---------------------------------------------------------------------------
\* Properties of the reconciler (SpecMerge).

\* C1 (as claimed): at every path where the deterministic record or the AI
\* record holds a value other than null, the merged record holds a value
\* other than null at that path.
C1_CompletenessMonotonic ==
    mpc = "merged" =>
        \A p \in KeyPaths(original) \cup KeyPaths(ai_record) :
            (HoldsNonNull(original, p) \/ HoldsNonNull(ai_record, p))
                => HoldsNonNull(merged, p)

\* The two values at path p are populated and are not both mappings.
BothPopulatedNotBothDicts(p) ==
    /\ p # <<>>
    /\ HoldsPopulated(original, p)
    /\ HoldsPopulated(ai_record, p)
    /\ ~(IsDict(ValueAt(original, p)) /\ IsDict(ValueAt(ai_record, p)))

\* C2: at every key the merge visits where the deterministic value and the AI
\* value are both populated and are not both mappings, the merged record
\* holds the deterministic value.
C2_PrimaryWinsTies ==
    mpc = "merged" =>
        \A p \in KeyPaths(original) \cap KeyPaths(ai_record) :
            BothPopulatedNotBothDicts(p)
                => ValueAt(merged, p) = ValueAt(original, p)

\* C2's case: a nested key where both sides are populated with different
\* values, and the merge has run.
C2_Witness ==
    /\ mpc = "merged"
    /\ \E p \in KeyPaths(original) \cap KeyPaths(ai_record) :
        /\ Len(p) = 2
        /\ BothPopulatedNotBothDicts(p)
        /\ ValueAt(original, p) # ValueAt(ai_record, p)

\* C9: merging a record with itself returns the record unchanged, and so
\* leaves its missing count unchanged.
C9_MergeIdempotent ==
    (mpc = "merged" /\ original = ai_record) =>
        /\ merged = original
        /\ _count_nulls(merged) = _count_nulls(original)

\* C9's case: a record with a nested mapping holding a null and a number has
\* been merged with itself.
C9_Witness ==
    /\ mpc = "merged"
    /\ original = ai_record
    /\ \E p \in KeyPaths(original), q \in KeyPaths(original) :
        /\ Len(p) = 2 /\ Len(q) = 2
        /\ IsNone(ValueAt(original, p))
        /\ ValueAt(original, q).t = "num"

\* C10 (as claimed): merging three records gives the same record in both
\* groupings, merge(merge(A, B), C) = merge(A, merge(B, C)).
C10_MergeAssociative ==
    mpc = "done" => merged_left = merged_right

\* C30 (as claimed): merging never makes the record less complete by the
\* evaluator's own count: _count_nulls(_merge_data(A, B)) <= _count_nulls(A)
\* for all records A and B.
C30_MergeNeverLessComplete ==
    mpc = "merged" => _count_nulls(merged) <= _count_nulls(original)

\* C11 (as claimed): for a fully-populated record A of an extractor,
\* _merge_data(A, _get_empty_structure()) equals A.
C11_TemplateRightIdentity ==
    (mpc = "merged" /\ original \in FullyPopulated /\ ai_record = _get_empty_structure)
        => merged = original

---------------------------------------------------------------------------
\* Properties of the completeness evaluator (SpecCount).

\* The positions of x holding None.
NullPositions(x) == {p \in Positions(x) : IsNone(ValueAt(x, p))}
\* The positions of x holding an empty mapping or an empty sequence.
EmptyPositions(x) == {p \in Positions(x) : IsEmptyContainer(ValueAt(x, p))}

\* C8 (as claimed): the count is the number of null leaves; non-null scalars
\* and empty mappings or sequences count 0.
C8_EmptyCountsZero ==
    /\ cpc \in {"counted", "done"} => null_count = Cardinality(NullPositions(data))
    /\ cpc = "done" => ai_null_count = Cardinality(NullPositions(data))

\* C8 (amended): a null leaf counts 1, a non-null scalar 0, a non-empty
\* mapping or sequence the sum over its values, and an empty mapping or
\* sequence counts 1: the count is the number of null leaves plus the number
\* of empty containers, in both copies of the code.
C8_EmptyCountsOne ==
    /\ cpc \in {"counted", "done"} =>
        null_count = Cardinality(NullPositions(data))
                        + Cardinality(EmptyPositions(data))
    /\ cpc = "done" =>
        ai_null_count = Cardinality(NullPositions(data))
                        + Cardinality(EmptyPositions(data))

\* C8's case: a value with a null leaf, a number and an empty container below
\* a mapping has been counted by both copies.
C8_Witness ==
    /\ cpc = "done"
    /\ IsDict(data)
    /\ NullPositions(data) # {}
    /\ EmptyPositions(data) # {}
    /\ \E p \in Positions(data) : ValueAt(data, p).t = "num"
    /\ null_count >= 2

---------------------------------------------------------------------------
\* SpecTier: _parse_tiered_accounts applied to one account section.

TierInit ==
    /\ section_found \in BOOLEAN
    /\ tier_matches \in TierSections
    /\ parsed_tiers = Null
    /\ tpc = "start"
    /\ MergeIdle /\ CountIdle /\ AIIdle
    /\ ScrapeIdle /\ ServiceIdle /\ DateIdle /\ PageIdle

\* tiers = self._parse_tiered_accounts(text, account_name)   (parser.py 136)
ParseTieredAccounts ==
    /\ tpc = "start"
    /\ parsed_tiers' = _parse_tiered_accounts(section_found, tier_matches)
    /\ tpc' = "done"
    /\ UNCHANGED <<section_found, tier_matches>>
    /\ UNCHANGED <<merge_vars, count_vars, ai_vars, scrape_vars, service_vars, date_vars,
                   page_vars>>

TierNext == ParseTieredAccounts

SpecTier == TierInit /\ [][TierNext]_vars

\* The rates matched after tier label k: the numbers its groups hold, in
\* column order (a group that holds no number is no rate).
MatchedRates(k) ==
    LET groups == tier_matches[k].groups
        numeric == {i \in DOMAIN groups : ~IsNone(parse_percentage(groups[i]))}
        nth(n) == CHOOSE i \in numeric : Cardinality({j \in numeric : j < i}) = n - 1
    IN  [n \in 1..Cardinality(numeric) |-> parse_percentage(groups[nth(n)])]

\* The label k matched in the section of the account.
LabelMatched(k) == section_found /\ tier_matches[k].matched

\* C20: for each tier label, 1 matched rate yields a scalar, 2 matched rates
\* a mapping with exactly the keys indexed and unindexed in column order, 3
\* matched rates a mapping with exactly the keys unbound, 3_months, 6_months;
\* a tier label that does not match yields no key.
C20_TierArityDispatch ==
    tpc = "done" =>
        \A k \in TierKeys :
            LET rates == MatchedRates(k)
                with_key == k \in DOMAIN parsed_tiers.d
                value == parsed_tiers.d[k]
            IN  /\ ~LabelMatched(k) => ~with_key
                /\ (LabelMatched(k) /\ Len(rates) = 1) =>
                        (with_key /\ value = rates[1])
                /\ (LabelMatched(k) /\ Len(rates) = 2) =>
                        /\ with_key /\ IsDict(value)
                        /\ DOMAIN value.d = {"indexed", "unindexed"}
                        /\ value.d["indexed"] = rates[1]
                        /\ value.d["unindexed"] = rates[2]
                /\ (LabelMatched(k) /\ Len(rates) = 3) =>
                        /\ with_key /\ IsDict(value)
                        /\ DOMAIN value.d = {"unbound", "3_months", "6_months"}
                        /\ value.d["unbound"] = rates[1]
                        /\ value.d["3_months"] = rates[2]
                        /\ value.d["6_months"] = rates[3]

\* C20's case: a section parsed where one label has two rates that differ,
\* another has three, and the other labels do not match.
C20_Witness ==
    /\ tpc = "done"
    /\ \E k \in TierKeys, j \in TierKeys :
        /\ LabelMatched(k) /\ LabelMatched(j)
        /\ Len(MatchedRates(k)) = 2
        /\ MatchedRates(k)[1] # MatchedRates(k)[2]
        /\ Len(MatchedRates(j)) = 3
        /\ \E i \in TierKeys : ~tier_matches[i].matched

---------------------------------------------------------------------------
\* SpecDate: parse_effective_date of one of the scrapers applied to a text.

DateInit ==
    /\ date_text \in DateTexts
    /\ today \in Todays
    /\ date_source = ""
    /\ effective_date = Null
    /\ dpc = "start"
    /\ MergeIdle /\ CountIdle /\ AIIdle
    /\ ScrapeIdle /\ ServiceIdle /\ TierIdle /\ PageIdle

\* The date parse of `source` returns `result`.
DateReturn(source, result) ==
    /\ dpc = "start"
    /\ date_source' = source
    /\ effective_date' = result
    /\ dpc' = "done"
    /\ UNCHANGED <<date_text, today>>
    /\ UNCHANGED <<merge_vars, count_vars, ai_vars, scrape_vars, service_vars, tier_vars,
                   page_vars>>

\* "effective_date": self.parse_effective_date(text)   (landsbankinn.py 119)
LandsbankinnDate ==
    DateReturn("landsbankinn", Landsbankinn_parse_effective_date(date_text))

\* rate_data["effective_date"] = self.parse_effective_date(text)   (arionbanki.py 347)
ArionDate ==
    DateReturn("arionbanki", Arion_parse_effective_date(date_text))

\* "effective_date": self.parse_effective_date(soup)   (islandsbanki.py 406)
IslandsbankiDate ==
    DateReturn("islandsbanki", Islandsbanki_parse_effective_date(date_text, today))

DateNext == LandsbankinnDate \/ ArionDate \/ IslandsbankiDate

SpecDate == DateInit /\ [][DateNext]_vars

\* The mention is a day, an Icelandic month name and a year.
IsMonthDate(m) == m.kind = "named" /\ lower(m.word) \in DOMAIN months_icelandic
\* The calendar has the date of the mention.
OnCalendar(m) ==
    LET month == months_icelandic[lower(m.word)] IN
    /\ month \in 1..12
    /\ m.day >= 1
    /\ m.day <= (IF month = 2 THEN (IF IsLeap(m.year) THEN 29 ELSE 28)
                 ELSE IF month \in {4, 6, 9, 11} THEN 30 ELSE 31)
\* The ISO text of the date of the mention.
IsoOf(m) ==
    LET month == months_icelandic[lower(m.word)]
        pad(n) == IF n < 10 THEN "0" \o ToString(n) ELSE ToString(n)
    IN  Str(ToString(m.year) \o "-" \o pad(month) \o "-" \o pad(m.day))

\* C19 (as claimed): in every source's parse_effective_date, a text whose
\* date is a day, an Icelandic month name and a year on the calendar yields
\* its ISO date; a text whose only date is not on the calendar yields null.
C19_DateParsing ==
    (dpc = "done" /\ Len(date_text) = 1 /\ IsMonthDate(date_text[1])) =>
        IF OnCalendar(date_text[1])
        THEN effective_date = IsoOf(date_text[1])
        ELSE effective_date = Null

---------------------------------------------------------------------------
\* SpecScrape: one scrape_rates call of one of the three scrapers.  Init
\* draws the scraper, how far the retrieval gets, the candidate its patterns
\* yield, the AI configuration and the provider's answers.

ScrapeInit ==
    /\ scraper \in SupportedBanks
    /\ acquisition \in StagesOf(scraper)
    /\ api_data \in (IF scraper = "arionbanki" THEN ApiBodies ELSE {Null})
    /\ parsed_data \in (IF acquisition = "ok" THEN CandidatesOf(scraper) ELSE {Null})
    /\ use_ai_parsing \in BOOLEAN
    /\ OPENROUTER_API_KEY \in BOOLEAN
    /\ ENABLE_AI_PARSING \in BOOLEAN
    /\ AI_NULL_THRESHOLD = 3
    /\ ai_env \in {"ok", "import_error", "init_error"}
    /\ provider \in [1..MaxAttempts -> ScrapeAnswers]
    /\ calls = 0 /\ ai_data = Null /\ ai_raised = FALSE /\ parsed_nulls = 0
    /\ enhanced_data = Null /\ pc = "idle"
    /\ rate_data = Null /\ source_url = Null
    /\ extractor_ran = FALSE /\ ai_sent = FALSE
    /\ spc = "start"
    /\ MergeIdle /\ CountIdle
    /\ ServiceIdle /\ DateIdle /\ TierIdle /\ PageIdle

\* The scrape returns `r`.
ScrapeReturn(r) ==
    /\ rate_data' = r.rate_data
    /\ source_url' = r.source_url
    /\ extractor_ran' = r.extractor_ran
    /\ ai_sent' = r.ai_sent
    /\ spc' = "done"
    /\ UNCHANGED <<scraper, acquisition, api_data>>
    /\ UNCHANGED <<merge_vars, count_vars, ai_vars, service_vars, date_vars, tier_vars,
                   page_vars>>

ScrapeLandsbankinn ==
    /\ spc = "start" /\ scraper = "landsbankinn"
    /\ ScrapeReturn(Landsbankinn_scrape_rates(acquisition, parsed_data, provider[1]))

ScrapeArion ==
    /\ spc = "start" /\ scraper = "arionbanki"
    /\ ScrapeReturn(Arion_scrape_rates(api_data, acquisition, parsed_data, provider[1]))

ScrapeIslandsbanki ==
    /\ spc = "start" /\ scraper = "islandsbanki"
    /\ ScrapeReturn(Islandsbanki_scrape_rates(acquisition, parsed_data))

ScrapeNext == ScrapeLandsbankinn \/ ScrapeArion \/ ScrapeIslandsbanki

SpecScrape == ScrapeInit /\ [][ScrapeNext]_vars

\* AI parsing is enabled and configured, and the AI processor is available.
AIReady ==
    /\ use_ai_parsing /\ OPENROUTER_API_KEY /\ ENABLE_AI_PARSING
    /\ ai_env = "ok"

\* The candidate is sufficiently complete: its missing count is below the
\* gate of enhance_with_ai.
SufficientlyComplete(candidate) == _count_nulls(candidate) < NULL_GATE

\* C12 (as claimed): for each scraper whose pattern extractor produced a
\* candidate while AI parsing is enabled and configured: when the candidate
\* is not sufficiently complete, scrape_rates sends the raw text to the AI
\* fallback and returns the reconciliation of both candidates; it returns
\* the candidate itself only when the candidate is sufficiently complete.
C12_SamePipeline ==
    (spc = "done" /\ extractor_ran /\ AIReady) =>
        IF SufficientlyComplete(parsed_data)
        THEN rate_data = parsed_data
        ELSE /\ ai_sent
             /\ rate_data = _merge_data(parsed_data, parse_bank_data(provider[1]).value)

\* The fixed keys of the schema are present in the record.
HasFixedKeys(record) ==
    /\ IsDict(record)
    /\ {"effective_date", "penalty_interest", "deposits", "mortgages",
        "vehicle_loans", "overdrafts", "credit_cards"} \subseteq DOMAIN record.d
    /\ LET deposits == record.d["deposits"]
           mortgages == record.d["mortgages"]
       IN  /\ IsDict(deposits)
           /\ {"veltureikningar", "sparireikningar", "foreign_currency"}
                \subseteq DOMAIN deposits.d
           /\ IsDict(deposits.d["sparireikningar"])
           /\ {"indexed", "unindexed", "other"}
                \subseteq DOMAIN deposits.d["sparireikningar"].d
           /\ IsDict(mortgages)
           /\ {"indexed", "unindexed"} \subseteq DOMAIN mortgages.d

\* C13 (as claimed): every record a scraper's scrape_rates returns holds all
\* fixed top-level keys and all fixed second-level keys, even when nothing
\* matched.
C13_OutputGuarantee ==
    (spc = "done" /\ ~IsNone(rate_data)) => HasFixedKeys(rate_data)

---------------------------------------------------------------------------
\* SpecService: calls of RateService over a Firestore collection.  Init
\* draws the state of Firestore and the documents of the collection; each
\* call draws its arguments and what the scrapers meet.  An hour passes
\* before each call.

\* The time of the first call, late enough for documents to have expired,
\* and the stamps of the documents: written an hour ago, exactly
\* CACHE_DURATION_HOURS ago, longer ago, or unstamped.
FirstCall == 2 * CACHE_DURATION_HOURS
Stamps == {Time(FirstCall - 1), Time(FirstCall - CACHE_DURATION_HOURS),
           Time(FirstCall - CACHE_DURATION_HOURS - 1), Null}

\* A document save_rates wrote for the bank at `stamp`.
StoredDoc(bank, stamp) ==
    Doc(Str(bank), BankName(bank), Str("2025-01-01"), stamp,
        Dict(("effective_date" :> Str("2025-01-01")) @@ ("bank_id" :> Str(bank))),
        PDF_URL)

\* The collections of Init: empty, one document, or KEEP_LATEST documents
\* of which the oldest is the only one of its bank.
InitialStores ==
    {<<>>}
    \cup {<<StoredDoc(bank, stamp)>> : bank \in SupportedBanks, stamp \in Stamps}
    \cup {[i \in 1..KEEP_LATEST |->
                IF i < KEEP_LATEST THEN StoredDoc(newer, Time(FirstCall - i))
                ELSE StoredDoc("arionbanki", Time(FirstCall - CACHE_DURATION_HOURS + 1))] :
            newer \in {"landsbankinn", "islandsbanki"}}

\* Identifiers the callers pass.
BankIdInputs == SupportedBanks \cup {" ArionBanki ", "invalid"}

\* What the scrape of a bank may meet: every way its retrieval fails, and
\* the candidate when every pattern matched.
ServiceCandidates(bank) ==
    CASE bank = "landsbankinn" ->
            {parse_rates({LandsbankinnSections[i] : i \in DOMAIN LandsbankinnSections})}
      [] bank = "arionbanki" ->
            {ArionRates({ArionFields[i] : i \in DOMAIN ArionFields}, TRUE)}
      [] OTHER ->
            {IslandsbankiRates(DepositTables \cup LoanTables, Num(1), Str("2025-10-24"))}

ServiceSites(bank) ==
    IF bank \notin SupportedBanks THEN {NoSite}
    ELSE LET failed == {Site(stage, Null, Null) : stage \in StagesOf(bank) \ {"ok"}}
             ok == {Site("ok", Null, c) : c \in ServiceCandidates(bank)}
         IN  IF bank = "arionbanki"
             THEN {Site("ok", api, Null) : api \in {b \in ApiBodies : Truthy(b)}}
                    \cup {[site EXCEPT !.api = api] :
                            site \in failed \cup ok, api \in {b \in ApiBodies : ~Truthy(b)}}
             ELSE failed \cup ok

\* What the scrapes of one get_all_bank_rates may meet: per bank, a
\* retrieval that fails and one that succeeds, and for Arion also the two
\* kinds of body its API answers.
RoundSites(bank) ==
    {site \in ServiceSites(bank) : site.stage \in {"no_url", "error", "ok"}
                                   /\ site.api # EmptyDict}
RoundsOfSites ==
    {[bank \in SupportedBanks |->
        CASE bank = "landsbankinn" -> l [] bank = "arionbanki" -> a [] OTHER -> i] :
        l \in RoundSites("landsbankinn"), a \in RoundSites("arionbanki"),
        i \in RoundSites("islandsbanki")}

\* The scrape of a bank in a call: what it met and what it returned.
NotScraped == [called |-> FALSE, site |-> NoSite, scraped |-> ScrapedNothing]

ServiceInit ==
    /\ db \in {"ok", "none", "failing"}
    /\ store \in InitialStores
    /\ clock = FirstCall - 1
    /\ ncalls = 0
    /\ op = "" /\ requested = "" /\ force_refresh = FALSE
    /\ sites = [bank \in SupportedBanks |-> NotScraped]
    /\ store_before = store
    /\ call_log = <<>>
    /\ response = Null /\ raised = ""
    /\ vpc = "ready"
    /\ refreshed = <<>> /\ previous = Null
    /\ use_ai_parsing = TRUE /\ OPENROUTER_API_KEY = TRUE
    /\ ENABLE_AI_PARSING = TRUE /\ AI_NULL_THRESHOLD = 3
    /\ ai_env = "ok" /\ parsed_data = Null
    /\ provider = [n \in 1..MaxAttempts |-> JsonText("json", AIObject)]
    /\ calls = 0 /\ ai_data = Null /\ ai_raised = FALSE /\ parsed_nulls = 0
    /\ enhanced_data = Null /\ pc = "idle"
    /\ MergeIdle /\ CountIdle
    /\ ScrapeIdle /\ DateIdle /\ TierIdle /\ PageIdle

\* The call `name`, made at the time `now`, returns or raises `result`.
CallReturn(name, id, force, site_of, result, now) ==
    /\ op' = name
    /\ requested' = id
    /\ force_refresh' = force
    /\ sites' = [bank \in SupportedBanks |->
                    IF \E i \in DOMAIN result.log :
                            result.log[i] = Call("scrape_rates", bank)
                    THEN [called |-> TRUE, site |-> site_of[bank],
                          scraped |-> scrape_rates(bank, site_of[bank].api,
                                            site_of[bank].stage,
                                            site_of[bank].candidate, provider[1])]
                    ELSE NotScraped]
    /\ store_before' = store
    /\ store' = result.store
    /\ call_log' = result.log
    /\ response' = result.response
    /\ raised' = result.raised
    /\ clock' = now
    /\ ncalls' = ncalls + 1
    /\ vpc' = "done"
    /\ UNCHANGED db
    /\ UNCHANGED <<merge_vars, count_vars, ai_vars, scrape_vars, date_vars, tier_vars,
                   page_vars>>

\* The call `name` returns or raises `result`, an hour after the call before.
ServiceReturn(name, id, force, site_of, result) ==
    /\ CallReturn(name, id, force, site_of, result, clock + 1)
    /\ UNCHANGED <<refreshed, previous>>

GetBankRates ==
    /\ ncalls < MaxCalls
    /\ \E id \in BankIdInputs, force \in BOOLEAN :
        \E site \in ServiceSites(strip_lower(id)) :
            \E result \in {get_bank_rates(id, force, db, store, clock + 1, site,
                                          provider[1])} :
                ServiceReturn("get_bank_rates", id, force,
                              [bank \in SupportedBanks |-> site], result)

GetAllBankRates ==
    /\ ncalls < MaxCalls
    /\ \E force \in BOOLEAN :
        \E site_of \in RoundsOfSites :
            \E result \in {get_all_bank_rates(force, db, store, clock + 1, site_of,
                                              provider[1])} :
                ServiceReturn("get_all_bank_rates", "", force, site_of, result)

ServiceNext == GetBankRates \/ GetAllBankRates

SpecService == ServiceInit /\ [][ServiceNext]_vars

\* Vocabulary of the properties of the service.
ServiceDone(name) == vpc = "done" /\ op = name
Logged(fn) == \E i \in DOMAIN call_log : call_log[i].fn = fn
\* The bank a call of get_bank_rates is about.
RequestedBank == strip_lower(requested)
\* The retrieval of the PDF of the bank gave no URL, no content or no text.
AcquisitionFailed(bank) ==
    /\ sites[bank].called
    /\ sites[bank].site.stage \in {"no_url", "no_content", "no_text"}
    /\ ~Truthy(sites[bank].site.api)
\* The most recent document of the bank when the call started.
LatestOf(bank) ==
    store_before[CHOOSE i \in DOMAIN store_before :
        /\ store_before[i].bank_id = Str(bank)
        /\ \A j \in 1..(i - 1) : store_before[j].bank_id # Str(bank)]
\* A valid cached document of the bank existed when the call started: the
\* most recent one of the bank is stamped and at most CACHE_DURATION_HOURS old.
ValidCached(bank) ==
    /\ db = "ok"
    /\ \E i \in DOMAIN store_before : store_before[i].bank_id = Str(bank)
    /\ ~IsNone(LatestOf(bank).last_updated)
    /\ clock - LatestOf(bank).last_updated.at <= CACHE_DURATION_HOURS

\* C14: when the PDF URL, the download or the extracted text is empty,
\* scrape_rates returns (None, None) without running the pattern extractor
\* or the AI fallback; get_bank_rates then raises RateServiceError, calls
\* neither save_rates nor clear_old_caches and leaves the cache unchanged.
C14_AcquisitionFailureHalts ==
    \A bank \in SupportedBanks :
        (ServiceDone("get_bank_rates") /\ AcquisitionFailed(bank)) =>
            /\ IsNone(sites[bank].scraped.rate_data)
            /\ IsNone(sites[bank].scraped.source_url)
            /\ ~sites[bank].scraped.extractor_ran
            /\ ~sites[bank].scraped.ai_sent
            /\ raised = "RateServiceError"
            /\ ~Logged("save_rates") /\ ~Logged("clear_old_caches")
            /\ store = store_before

\* A retrieval failed in a call of get_bank_rates over a collection that
\* holds documents.
C14_Witness ==
    /\ ServiceDone("get_bank_rates")
    /\ \E bank \in SupportedBanks : AcquisitionFailed(bank)
    /\ raised = "RateServiceError"
    /\ store_before # <<>> /\ db = "ok"

\* C15: when a valid cached document exists for the bank and force_refresh
\* is false, get_bank_rates returns a response with cached == true built
\* from that document, and scrape_rates, save_rates and clear_old_caches are
\* not called.
C15_CacheHit ==
    (/\ ServiceDone("get_bank_rates") /\ RequestedBank \in SupportedBanks
     /\ ~force_refresh /\ ValidCached(RequestedBank)) =>
        /\ raised = ""
        /\ Get(response, "cached") = Bool(TRUE)
        /\ Get(response, "data") = LatestOf(RequestedBank).data
        /\ Get(response, "bank_id") = Str(RequestedBank)
        /\ Get(response, "effective_date") = LatestOf(RequestedBank).effective_date
        /\ Get(response, "source_url") = LatestOf(RequestedBank).source_url
        /\ Get(response, "last_updated")
                = IsoTime(LatestOf(RequestedBank).last_updated.at)
        /\ ~Logged("scrape_rates") /\ ~Logged("save_rates")
        /\ ~Logged("clear_old_caches")
        /\ store = store_before

\* A read that finds a document written exactly CACHE_DURATION_HOURS ago.
C15_Witness ==
    /\ ServiceDone("get_bank_rates") /\ RequestedBank \in SupportedBanks
    /\ ~force_refresh /\ ValidCached(RequestedBank)
    /\ clock - LatestOf(RequestedBank).last_updated.at = CACHE_DURATION_HOURS
    /\ Get(response, "cached") = Bool(TRUE)

\* A forced refresh of a supported bank returned a response.
ForcedRefreshReturned ==
    /\ ServiceDone("get_bank_rates") /\ RequestedBank \in SupportedBanks
    /\ force_refresh /\ raised = ""

\* C16 (as claimed): with force_refresh true, get_bank_rates never reads the
\* cache; it scrapes, calls save_rates once and then clear_old_caches once,
\* and returns a response with cached == false.
C16_AsClaimed ==
    ForcedRefreshReturned =>
        /\ call_log = <<Call("scrape_rates", RequestedBank),
                        Call("save_rates", RequestedBank),
                        Call("clear_old_caches", RequestedBank)>>
        /\ Get(response, "cached") = Bool(FALSE)

\* C16 (amended): with force_refresh true, get_bank_rates never reads the
\* cache; it scrapes, calls save_rates once and then, only when save_rates
\* returned true (the document was written), clear_old_caches once, and
\* returns a response with cached == false.
C16_ForceRefresh ==
    ForcedRefreshReturned =>
        /\ ~Logged("get_cached_rates")
        /\ call_log = <<Call("scrape_rates", RequestedBank),
                        Call("save_rates", RequestedBank)>>
                      \o (IF Len(store) > 0 /\ store[1].last_updated = Time(clock)
                          THEN <<Call("clear_old_caches", RequestedBank)>>
                          ELSE <<>>)
        /\ (db = "ok" <=> Logged("clear_old_caches"))
        /\ Get(response, "cached") = Bool(FALSE)

\* A forced refresh while a valid document of the bank exists.
C16_Witness ==
    /\ ForcedRefreshReturned
    /\ ValidCached(RequestedBank)
    /\ Logged("clear_old_caches")

\* C17: an unsupported bank identifier makes get_bank_rates raise
\* UnknownBankError before any cache read, scrape or save takes place; the
\* cache is unchanged.
C17_UnknownBank ==
    (ServiceDone("get_bank_rates") /\ RequestedBank \notin SupportedBanks) =>
        /\ raised = "UnknownBankError"
        /\ IsNone(response)
        /\ call_log = <<>>
        /\ store = store_before

\* An unsupported identifier was requested over a collection with documents.
C17_Witness ==
    /\ ServiceDone("get_bank_rates") /\ RequestedBank \notin SupportedBanks
    /\ raised = "UnknownBankError"
    /\ store_before # <<>> /\ db = "ok"

\* The fetch of the bank raised RateServiceError: its scrape gave no record.
FetchFailed(bank) ==
    sites[bank].called /\ ~Truthy(sites[bank].scraped.rate_data)

\* C18: get_all_bank_rates does not raise for the RateServiceError or
\* UnknownBankError of a bank, and what it returns holds exactly one entry
\* per supported bank, in registry order: {bank_id, error} for a bank whose
\* fetch raised, the response of its fetch for every other bank.
C18_AllBanks ==
    ServiceDone("get_all_bank_rates") =>
        /\ raised \notin {"RateServiceError", "UnknownBankError"}
        /\ raised = "" =>
            /\ Len(response.banks) = Len(AVAILABLE_BANKS)
            /\ \A i \in DOMAIN AVAILABLE_BANKS :
                LET bank == AVAILABLE_BANKS[i]
                    entry == response.banks[i].entry
                IN  /\ response.banks[i].bank_id = bank
                    /\ Get(entry, "bank_id") = Str(bank)
                    /\ IF FetchFailed(bank)
                       THEN /\ DOMAIN entry.d = {"bank_id", "error"}
                            /\ entry.d["error"] = Message("RateServiceError", bank)
                       ELSE /\ "error" \notin DOMAIN entry.d
                            /\ {"data", "cached"} \subseteq DOMAIN entry.d
                            /\ Truthy(entry.d["data"])

\* The fetch of the first bank of the registry failed and the last bank
\* was still fetched.
C18_Witness ==
    /\ ServiceDone("get_all_bank_rates") /\ raised = ""
    /\ FetchFailed(AVAILABLE_BANKS[1])
    /\ ~FetchFailed(AVAILABLE_BANKS[Len(AVAILABLE_BANKS)])
    /\ sites[AVAILABLE_BANKS[Len(AVAILABLE_BANKS)]].called

\* The entry of the bank in what the call returned.
EntryOf(bank) ==
    IF op = "get_bank_rates" THEN response
    ELSE response.banks[CHOOSE i \in DOMAIN AVAILABLE_BANKS : AVAILABLE_BANKS[i] = bank].entry
\* save_rates returned true for the bank in the call: the collection holds
\* a document of the bank written at the time of the call.
SavedTrue(bank) ==
    \E i \in DOMAIN store :
        store[i].bank_id = Str(bank) /\ store[i].last_updated = Time(clock)
CallsOf(fn, bank) == {i \in DOMAIN call_log : call_log[i] = Call(fn, bank)}

C29_PruneOnlyAfterSave ==
    vpc = "done" =>
        \A bank \in SupportedBanks :
            /\ \A i \in CallsOf("clear_old_caches", bank) :
                /\ i > 1 /\ call_log[i - 1] = Call("save_rates", bank)
                /\ SavedTrue(bank)
            /\ Cardinality(CallsOf("clear_old_caches", bank))
                <= Cardinality(CallsOf("scrape_rates", bank))
            /\ Cardinality(CallsOf("clear_old_caches", bank)) <= 1
            /\ (CallsOf("save_rates", bank) # {} /\ ~SavedTrue(bank)) =>
                /\ CallsOf("clear_old_caches", bank) = {}
                /\ store = store_before
                /\ raised = "" =>
                    /\ Get(EntryOf(bank), "cached") = Bool(FALSE)
                    /\ \A k \in DOMAIN sites[bank].scraped.rate_data.d :
                        Get(EntryOf(bank), "data").d[k]
                            = sites[bank].scraped.rate_data.d[k]

\* A fresh fetch whose save_rates returned false over a collection that
\* holds KEEP_LATEST documents.
C29_Witness ==
    /\ ServiceDone("get_bank_rates") /\ raised = ""
    /\ db # "ok"
    /\ Logged("save_rates") /\ ~Logged("clear_old_caches")
    /\ Len(store_before) >= KEEP_LATEST
    /\ Get(response, "cached") = Bool(FALSE)

---------------------------------------------------------------------------
\* SpecRefresh: forced refreshes of the supported banks, each an hour after
\* the call before, over a collection that starts empty, ended by one read
\* (a call without force_refresh) an hour, CACHE_DURATION_HOURS or longer
\* after the call before.  Every scrape succeeds.

\* What a scrape that succeeds meets.
RefreshSite(bank) ==
    CHOOSE site \in RoundSites(bank) : site.stage = "ok" /\ IsNone(site.api)

\* The call the state holds, as the next state remembers it.
LastCall ==
    IF vpc # "done" THEN Null
    ELSE [t |-> "call", requested |-> requested, force_refresh |-> force_refresh,
          response |-> response, raised |-> raised, at |-> clock]

RefreshInit ==
    /\ db \in {"ok", "none"}
    /\ store = <<>>
    /\ clock = FirstCall - 1
    /\ ncalls = 0
    /\ op = "" /\ requested = "" /\ force_refresh = FALSE
    /\ sites = [bank \in SupportedBanks |-> NotScraped]
    /\ store_before = store
    /\ call_log = <<>>
    /\ response = Null /\ raised = ""
    /\ vpc = "ready"
    /\ refreshed = [bank \in SupportedBanks |-> 0]
    /\ previous = Null
    /\ use_ai_parsing = TRUE /\ OPENROUTER_API_KEY = TRUE
    /\ ENABLE_AI_PARSING = TRUE /\ AI_NULL_THRESHOLD = 3
    /\ ai_env = "ok" /\ parsed_data = Null
    /\ provider = [n \in 1..MaxAttempts |-> JsonText("json", AIObject)]
    /\ calls = 0 /\ ai_data = Null /\ ai_raised = FALSE /\ parsed_nulls = 0
    /\ enhanced_data = Null /\ pc = "idle"
    /\ MergeIdle /\ CountIdle
    /\ ScrapeIdle /\ DateIdle /\ TierIdle /\ PageIdle

\* get_bank_rates(bank, force) at the time `now`.
RefreshReturn(bank, force, now) ==
    \E result \in {get_bank_rates(bank, force, db, store, now, RefreshSite(bank),
                                  provider[1])} :
        /\ CallReturn("get_bank_rates", bank, force,
                      [b \in SupportedBanks |-> RefreshSite(bank)], result, now)
        /\ refreshed' =
            [refreshed EXCEPT ![bank] =
                IF \E i \in DOMAIN result.log : result.log[i] = Call("clear_old_caches", bank)
                THEN now ELSE @]
        /\ previous' = LastCall

\* The last call was no read.
NoReadYet == ~(vpc = "done" /\ ~force_refresh)

Refresh ==
    /\ ncalls < MaxRefreshes
    /\ NoReadYet
    /\ \E bank \in SupportedBanks : RefreshReturn(bank, TRUE, clock + 1)

Read ==
    /\ ncalls < MaxRefreshes
    /\ NoReadYet
    /\ \E bank \in SupportedBanks :
        \E elapsed \in {1, CACHE_DURATION_HOURS, CACHE_DURATION_HOURS + 1} :
            RefreshReturn(bank, FALSE, clock + elapsed)

RefreshNext == Refresh \/ Read

SpecRefresh == RefreshInit /\ [][RefreshNext]_vars

\* C27 (as claimed): after any sequence of successful refreshes of the
\* supported banks, every bank that was refreshed successfully still has
\* its most recent document in the store.
C27_PruneKeepsEveryBank ==
    \A bank \in SupportedBanks :
        refreshed[bank] # 0 =>
            \E i \in DOMAIN store :
                /\ store[i].bank_id = Str(bank)
                /\ store[i].last_updated = Time(refreshed[bank])

\* A read of the bank directly follows a forced refresh of it that
\* succeeded, on a store whose save succeeds, within the TTL.
ReadAfterRefresh ==
    /\ ServiceDone("get_bank_rates") /\ ~force_refresh
    /\ ~IsNone(previous)
    /\ previous.force_refresh /\ previous.raised = ""
    /\ db = "ok"
    /\ strip_lower(previous.requested) = RequestedBank
    /\ clock - previous.at <= CACHE_DURATION_HOURS

---------------------------------------------------------------------------
\* SpecKey: IslandsbankiScraper.normalize_key.  A text is the sequence of
\* its characters; an ASCII character stands for itself, "TAB" and "NL" are
\* the tab and the newline, and a letter outside ASCII has its entity name
\* ("Oacute" is the capital O with an acute accent).

\* The str.maketrans table: the space becomes an underscore, the Icelandic
\* letters their ASCII spelling.
replacements ==
    [c \in {" ", "aacute", "Aacute", "eacute", "Eacute", "iacute", "Iacute",
            "oacute", "Oacute", "uacute", "Uacute", "yacute", "Yacute",
            "ouml", "Ouml", "aelig", "AElig", "eth", "ETH", "thorn", "THORN"} |->
        CASE c = " " -> <<"_">>
          [] c \in {"aacute", "Aacute"} -> <<"a">>
          [] c \in {"eacute", "Eacute"} -> <<"e">>
          [] c \in {"iacute", "Iacute"} -> <<"i">>
          [] c \in {"oacute", "Oacute", "ouml", "Ouml"} -> <<"o">>
          [] c \in {"uacute", "Uacute"} -> <<"u">>
          [] c \in {"yacute", "Yacute"} -> <<"y">>
          [] c \in {"aelig", "AElig"} -> <<"a", "e">>
          [] c \in {"eth", "ETH"} -> <<"d">>
          [] c \in {"thorn", "THORN"} -> <<"t", "h">>]

UpperCase == <<"A", "B", "C", "D", "E", "F", "G", "H", "I", "J", "K", "L", "M",
               "N", "O", "P", "Q", "R", "S", "T", "U", "V", "W", "X", "Y", "Z">>
LowerCase == <<"a", "b", "c", "d", "e", "f", "g", "h", "i", "j", "k", "l", "m",
               "n", "o", "p", "q", "r", "s", "t", "u", "v", "w", "x", "y", "z">>
DigitChars == {"0", "1", "2", "3", "4", "5", "6", "7", "8", "9"}
\* The class [a-z0-9_].
KeyChars == {LowerCase[i] : i \in DOMAIN LowerCase} \cup DigitChars \cup {"_"}

\* str.translate(table): a character of the table becomes its entry.
RECURSIVE translate(_, _)
translate(text, mapping) ==
    IF text = <<>> THEN <<>>
    ELSE (IF Head(text) \in DOMAIN mapping THEN mapping[Head(text)] ELSE <<Head(text)>>)
            \o translate(Tail(text), mapping)

\* str.lower() on the characters of a text.
lower_text(text) ==
    [i \in DOMAIN text |->
        IF \E n \in DOMAIN UpperCase : UpperCase[n] = text[i]
        THEN LowerCase[CHOOSE n \in DOMAIN UpperCase : UpperCase[n] = text[i]]
        ELSE CASE text[i] = "Aacute" -> "aacute" [] text[i] = "Eacute" -> "eacute"
               [] text[i] = "Iacute" -> "iacute" [] text[i] = "Oacute" -> "oacute"
               [] text[i] = "Uacute" -> "uacute" [] text[i] = "Yacute" -> "yacute"
               [] text[i] = "Ouml" -> "ouml" [] text[i] = "AElig" -> "aelig"
               [] text[i] = "ETH" -> "eth" [] text[i] = "THORN" -> "thorn"
               [] OTHER -> text[i]]

\* re.sub(r"[^a-z0-9_]", "", text).
RECURSIVE sub_other(_)
sub_other(text) ==
    IF text = <<>> THEN <<>>
    ELSE (IF Head(text) \in KeyChars THEN <<Head(text)>> ELSE <<>>) \o sub_other(Tail(text))

\* re.sub(r"_+", "_", text).
RECURSIVE sub_underscores(_)
sub_underscores(text) ==
    IF Len(text) < 2 THEN text
    ELSE IF text[1] = "_" /\ text[2] = "_" THEN sub_underscores(Tail(text))
    ELSE <<Head(text)>> \o sub_underscores(Tail(text))

\* str.strip("_").
RECURSIVE strip_underscores(_)
strip_underscores(text) ==
    IF text = <<>> THEN <<>>
    ELSE IF Head(text) = "_" THEN strip_underscores(Tail(text))
    ELSE IF text[Len(text)] = "_" THEN strip_underscores(SubSeq(text, 1, Len(text) - 1))
    ELSE text

normalize_key(text) ==
    IF text = <<>> THEN <<>>
    ELSE strip_underscores(sub_underscores(sub_other(lower_text(
            translate(text, replacements)))))

\* The characters of the texts: a lower-case and an upper-case letter, a
\* digit, the underscore, the space, the tab, a character that is dropped,
\* and two letters of the table (one of them spelt with two characters).
NameChars == {"a", "B", "7", "_", " ", "TAB", "-", "Oacute", "thorn"}
TextsUpTo(n) == UNION {[1..m -> NameChars] : m \in 0..n}

KeyInit ==
    /\ account_name \in TextsUpTo(MaxNameLen)
    /\ normalized = <<>> /\ ppc = "start"
    /\ table = <<>> /\ row_result = <<>> /\ page_tables = <<>> /\ grouped = <<>>
    /\ combined = <<>> /\ pdf_text = <<>> /\ pdf_mortgages = <<>>
    /\ MergeIdle /\ CountIdle /\ AIIdle
    /\ ScrapeIdle /\ ServiceIdle /\ DateIdle /\ TierIdle

NormalizeKey ==
    /\ ppc = "start"
    /\ normalized' = normalize_key(account_name)
    /\ ppc' = "normalized"
    /\ UNCHANGED <<account_name, table, row_result, page_tables, grouped, combined,
                   pdf_text, pdf_mortgages>>
    /\ UNCHANGED <<merge_vars, count_vars, ai_vars, scrape_vars, service_vars,
                   date_vars, tier_vars>>

SpecKey == KeyInit /\ [][NormalizeKey]_vars

\* Whitespace, and the characters of which normalize_key keeps something.
Whitespace == {" ", "TAB", "NL"}
Retained(c) == normalize_key(<<c>>) # <<>>

\* C25 (as claimed): the key is a text over [a-z0-9_] without two
\* consecutive underscores, normalising it again changes nothing, and every
\* run of whitespace (spaces, tabs, newlines) between two retained characters
\* of the text is exactly one underscore of the key.
C25_NormalizeKey ==
    ppc = "normalized" =>
        /\ \A i \in DOMAIN normalized : normalized[i] \in KeyChars
        /\ \A i \in DOMAIN normalized :
                i < Len(normalized) => ~(normalized[i] = "_" /\ normalized[i + 1] = "_")
        /\ normalize_key(normalized) = normalized
        /\ \A i, j \in DOMAIN account_name :
                (/\ i + 1 < j
                 /\ Retained(account_name[i]) /\ Retained(account_name[j])
                 /\ \A k \in (i + 1)..(j - 1) : account_name[k] \in Whitespace)
                => normalized = normalize_key(SubSeq(account_name, 1, i)) \o <<"_">>
                        \o normalize_key(SubSeq(account_name, j, Len(account_name)))

---------------------------------------------------------------------------
\* SpecRows: IslandsbankiScraper.parse_table_rows.  A table is the sequence
\* of its rows, a row the sequence of the texts of its cells, and the result
\* a function from keys (texts) to a rate or a list of rates.

\* IslandsbankiScraper.parse_percentage: float of the text without "%", with
\* the comma as the decimal point, or None.
islandsbanki_parse_percentage(value) ==
    LET text == Strip(Replace(Replace(value, "%", ""), ",", "."))
    IN  IF text = <<>> THEN Null
        ELSE LET f == float(text) IN IF f.raised THEN Null ELSE f.value

\* str(index) of the f-string.
RECURSIVE str_index(_)
str_index(n) ==
    IF n < 10 THEN <<CHOOSE c \in DOMAIN Digit : Digit[c] = n>>
    ELSE str_index(n \div 10) \o str_index(n % 10)

\* The key a row is stored under were no suffix added: it replaces the
\* entry of an earlier row of that name.
row_key_overwrites(result, base_key) == base_key

\* The loop `while key in result`: the name itself when it is free, else the
\* name with the first suffix _2, _3, ... that is free.
row_key(result, base_key) ==
    IF base_key \notin DOMAIN result THEN base_key
    ELSE LET suffixed(index) == base_key \o <<"_">> \o str_index(index)
             free == {index \in 2..(Cardinality(DOMAIN result) + 2) :
                        suffixed(index) \notin DOMAIN result}
         IN  suffixed(CHOOSE index \in free : \A other \in free : index <= other)

\* The list `rates` of a row: the cells after the first that parse.
RECURSIVE row_rates(_)
row_rates(cells) ==
    IF cells = <<>> THEN <<>>
    ELSE LET rate == islandsbanki_parse_percentage(Strip(Head(cells)))
         IN  (IF rate = Null THEN <<>> ELSE <<rate>>) \o row_rates(Tail(cells))

\* parse_table_rows after the first n rows of the table.
RECURSIVE parse_rows(_, _)
parse_rows(rows, n) ==
    IF n = 0 THEN <<>>
    ELSE Only({
        LET cells == rows[n]
            rates == row_rates(Tail(cells))
            base_key == normalize_key(Strip(cells[1]))
        IN  IF Len(cells) < 2 \/ Strip(cells[1]) = <<>> \/ rates = <<>> \/ base_key = <<>>
            THEN result
            ELSE (row_key(result, base_key) :>
                    (IF Len(rates) = 1 THEN rates[1] ELSE List(rates))) @@ result
        : result \in {parse_rows(rows, n - 1)}})

parse_table_rows(rows) == parse_rows(rows, Len(rows))

\* The rows of the tables: a name with one rate, the same name in capitals
\* with two rates, the name a suffix would give, a name of which nothing is
\* kept, a row whose cell is no rate, a row of one cell and a row without a
\* name.
RowTexts ==
    {<<<<"a">>, <<"1", ",", "5", "%">>>>,
     <<<<"A", " ">>, <<"2", "%">>, <<"3">>>>,
     <<<<"a", "_", "2">>, <<"4">>>>,
     <<<<"-">>, <<"1">>>>,
     <<<<"a">>, <<"-">>>>,
     <<<<"a">>>>,
     <<<<" ">>, <<"1">>>>}

RowsInit ==
    /\ table \in UNION {[1..m -> RowTexts] : m \in 0..MaxRows}
    /\ row_result = <<>> /\ ppc = "start"
    /\ account_name = <<>> /\ normalized = <<>> /\ page_tables = <<>> /\ grouped = <<>>
    /\ combined = <<>> /\ pdf_text = <<>> /\ pdf_mortgages = <<>>
    /\ MergeIdle /\ CountIdle /\ AIIdle
    /\ ScrapeIdle /\ ServiceIdle /\ DateIdle /\ TierIdle

ParseTableRows ==
    /\ ppc = "start"
    /\ row_result' = parse_table_rows(table)
    /\ ppc' = "parsed"
    /\ UNCHANGED <<account_name, normalized, table, page_tables, grouped, combined,
                   pdf_text, pdf_mortgages>>
    /\ UNCHANGED <<merge_vars, count_vars, ai_vars, scrape_vars, service_vars,
                   date_vars, tier_vars>>

SpecRows == RowsInit /\ [][ParseTableRows]_vars

\* The rows of the table that have at least two cells, a name of which
\* normalize_key keeps something, and at least one cell that is a rate.
RateRows ==
    {n \in DOMAIN table :
        /\ Len(table[n]) >= 2
        /\ normalize_key(Strip(table[n][1])) # <<>>
        /\ \E c \in 2..Len(table[n]) :
                islandsbanki_parse_percentage(Strip(table[n][c])) # Null}

\* C24: parse_table_rows gives every row with a non-empty normalised name
\* and at least one parsable rate a key of its own: the result has as many
\* keys as the table has such rows.
C24_DistinctKeys ==
    ppc = "parsed" => Cardinality(DOMAIN row_result) = Cardinality(RateRows)

\* Three rows of one name were parsed, the second and the third under a
\* suffix.
C24_Witness ==
    /\ ppc = "parsed"
    /\ Cardinality(RateRows) = 3
    /\ \E base_key \in DOMAIN row_result :
        /\ base_key \o <<"_", "2">> \in DOMAIN row_result
        /\ base_key \o <<"_", "3">> \in DOMAIN row_result

---------------------------------------------------------------------------
\* SpecPage: parse_deposits and parse_loans of IslandsbankiScraper on the
\* tables of a page.  A table is its heading (what get_table_heading
\* returns) and its rows.  A heading is a text whose elements are a first
\* letter or the rest of a stem ("V", "erdtrygg" spell the start of
\* "Verdtryggdir"), so that a keyword is found in a heading exactly when its
\* elements are consecutive elements of the heading.

\* A keyword: the texts its pattern matches.  All but one are literal.
Literal(text) == {text}
verdtrygg == Literal(<<"v", "erdtrygg">>)
overdtrygg == Literal(<<"oacute", "v", "erdtrygg">>)
sparireik == Literal(<<"s", "parireik">>)
ibudalan == Literal(<<"iacute", "budalan">>)
fasteignalan == Literal(<<"f", "asteignalan">>)

\* re.search(pattern, text) as a truth value.
re_search(pattern, text) ==
    \E literal \in pattern :
        \E at \in 0..(Len(text) - Len(literal)) :
            SubSeq(text, at + 1, at + Len(literal)) = literal

\* keyword_map of parse_deposits, in the order of the dict.
deposit_keyword_map ==
    <<[key |-> "veltureikningar", groups |-> <<{Literal(<<"v", "eltureik">>)}>>],
      [key |-> "spar_indexed", groups |-> <<{sparireik, verdtrygg}>>],
      [key |-> "spar_unindexed", groups |-> <<{sparireik, overdtrygg}>>],
      [key |-> "spar_general", groups |-> <<{sparireik}>>],
      [key |-> "foreign_currency",
       groups |-> <<{Literal(<<"g", "jaldmidl">>)}, {Literal(<<"g", "jaldeyr">>)}>>]>>

\* keyword_map of parse_loans, in the order of the dict.  The last pattern
\* of vehicle_loans allows blanks between its two parts.
loan_keyword_map ==
    <<[key |-> "mortgages_indexed",
       groups |-> <<{ibudalan, verdtrygg}, {verdtrygg, fasteignalan}>>],
      [key |-> "mortgages_unindexed",
       groups |-> <<{ibudalan, overdtrygg}, {overdtrygg, fasteignalan}>>],
      [key |-> "mortgages_generic", groups |-> <<{ibudalan}>>],
      [key |-> "overdrafts", groups |-> <<{Literal(<<"y", "firdratt">>)}>>],
      [key |-> "credit_cards",
       groups |-> <<{Literal(<<"k", "ort">>)}, {Literal(<<"k", "redit">>)}>>],
      [key |-> "vehicle_loans",
       groups |-> <<{Literal(<<"ouml", "kutaeki">>)}, {Literal(<<"b", "ila">>)},
                    {Literal(<<"b", "ifreid">>)}, {Literal(<<"b", "ila", "lan">>)},
                    {{<<"b", "ila", "f", "jar">>, <<"b", "ila", " ", "f", "jar">>,
                      <<"b", "ila", " ", " ", "f", "jar">>}}>>]>>

\* The key a table is appended to: the first key of the map one of whose
\* groups has all its patterns found in the lower-cased heading; "" if none
\* or if the table has no heading.
heading_key(heading_text, keyword_map) ==
    LET heading_lower == lower_text(heading_text)
        matched == {e \in DOMAIN keyword_map :
                        \E g \in DOMAIN keyword_map[e].groups :
                            \A pattern \in keyword_map[e].groups[g] :
                                re_search(pattern, heading_lower)}
    IN  IF heading_text = <<>> \/ matched = {} THEN ""
        ELSE keyword_map[CHOOSE e \in matched : \A other \in matched : e <= other].key

\* The elements of a set of numbers in increasing order.
RECURSIVE Ascending(_)
Ascending(S) ==
    IF S = {} THEN <<>>
    ELSE LET least == CHOOSE n \in S : \A other \in S : n <= other
         IN  <<least>> \o Ascending(S \ {least})

\* extract_tables_by_keywords: per key, the tables (by their position on the
\* page) appended to it, in document order.
extract_tables_by_keywords(tables, keyword_map) ==
    [key \in {keyword_map[e].key : e \in DOMAIN keyword_map} |->
        Ascending({n \in DOMAIN tables : heading_key(tables[n].heading, keyword_map) = key})]

\* merge_table_data on the first n tables: a key keeps the value of the
\* first table that has it.
RECURSIVE merge_tables(_, _)
merge_tables(tables, n) ==
    IF n = 0 THEN <<>>
    ELSE Only({done @@ parse_table_rows(tables[n]) : done \in {merge_tables(tables, n - 1)}})

merge_table_data(tables) == merge_tables(tables, Len(tables))

\* The loop of dict.update(parse_table_rows(table)) on the first n tables: a
\* key takes the value of the last table that has it.
RECURSIVE update_tables(_, _, _)
update_tables(initial, tables, n) ==
    IF n = 0 THEN initial
    ELSE Only({parse_table_rows(tables[n]) @@ done :
                done \in {update_tables(initial, tables, n - 1)}})

\* The rows of the tables a key was given.
RowsOf(tables, positions) == [i \in DOMAIN positions |-> tables[positions[i]].rows]

\* parse_deposits: the groups and the dict `deposits`.
detailed_parse_deposits(tables) ==
    LET found == extract_tables_by_keywords(tables, deposit_keyword_map)
        merged_rows(key) == merge_table_data(RowsOf(tables, found[key]))
        indexed == merged_rows("spar_indexed")
        unindexed == merged_rows("spar_unindexed")
    IN  [grouped |-> found,
         deposits |->
            [veltureikningar |-> merged_rows("veltureikningar"),
             sparireikningar |->
                [indexed |-> indexed,
                 unindexed |-> unindexed,
                 other |-> IF found["spar_general"] # <<>> /\ indexed = <<>> /\ unindexed = <<>>
                           THEN merged_rows("spar_general") ELSE <<>>],
             foreign_currency |-> merged_rows("foreign_currency")]]

\* parse_loans: the groups and the dict `loans`; `penalty` is what
\* parse_penalty_interest returns.
detailed_parse_loans(tables, penalty) ==
    LET found == extract_tables_by_keywords(tables, loan_keyword_map)
        rows_of(key) == RowsOf(tables, found[key])
        indexed == update_tables(<<>>, rows_of("mortgages_indexed"),
                                 Len(found["mortgages_indexed"]))
        unindexed == update_tables(<<>>, rows_of("mortgages_unindexed"),
                                   Len(found["mortgages_unindexed"]))
    IN  [grouped |-> found,
         loans |->
            [mortgages |->
                [indexed |-> indexed,
                 unindexed |-> IF indexed = <<>>
                               THEN update_tables(unindexed, rows_of("mortgages_generic"),
                                                  Len(found["mortgages_generic"]))
                               ELSE unindexed],
             overdrafts |-> merge_table_data(rows_of("overdrafts")),
             credit_cards |-> merge_table_data(rows_of("credit_cards")),
             vehicle_loans |-> merge_table_data(rows_of("vehicle_loans")),
             penalty_interest |-> penalty]]

\* The headings of the tables: indexed, unindexed and plain savings
\* accounts, current accounts, indexed, unindexed and plain mortgages,
\* overdrafts, and a table without a heading.
Headings ==
    {<<"V", "erdtrygg", "dir", " ", "s", "parireik", "ningar">>,
     <<"Oacute", "v", "erdtrygg", "dir", " ", "s", "parireik", "ningar">>,
     <<"S", "parireik", "ningar">>,
     <<"V", "eltureik", "ningar">>,
     <<"V", "erdtrygg", "d", " ", "iacute", "budalan">>,
     <<"Oacute", "v", "erdtrygg", "d", " ", "iacute", "budalan">>,
     <<"Iacute", "budalan">>,
     <<"Y", "firdratt", "arlan">>,
     <<>>}

\* The rows of the tables: two tables give the name "a" different rates.
PageRows ==
    {<<<<<<"a">>, <<"1", "%">>>>>>,
     <<<<<<"a">>, <<"2", "%">>>>, <<<<"b">>, <<"3", "%">>>>>>}

PageInit ==
    /\ page_tables \in UNION {[1..m -> [heading : Headings, rows : PageRows]] :
                                m \in 0..MaxTables}
    /\ grouped = <<>> /\ combined = <<>> /\ ppc = "start"
    /\ account_name = <<>> /\ normalized = <<>> /\ table = <<>> /\ row_result = <<>>
    /\ pdf_text = <<>> /\ pdf_mortgages = <<>>
    /\ MergeIdle /\ CountIdle /\ AIIdle
    /\ ScrapeIdle /\ ServiceIdle /\ DateIdle /\ TierIdle

PageReturn(parsed, result, position) ==
    /\ ppc = "start"
    /\ grouped' = parsed
    /\ combined' = result
    /\ ppc' = position
    /\ UNCHANGED <<account_name, normalized, table, row_result, page_tables,
                   pdf_text, pdf_mortgages>>
    /\ UNCHANGED <<merge_vars, count_vars, ai_vars, scrape_vars, service_vars,
                   date_vars, tier_vars>>

ParseDeposits ==
    \E parsed \in {detailed_parse_deposits(page_tables)} :
        PageReturn(parsed.grouped, parsed.deposits, "deposits")

ParseLoans ==
    \E penalty \in {Null, Num(1700)} :
        \E parsed \in {detailed_parse_loans(page_tables, penalty)} :
            PageReturn(parsed.grouped, parsed.loans, "loans")

PageNext == ParseDeposits \/ ParseLoans

SpecPage == PageInit /\ [][PageNext]_vars

\* The positions of the tables a key was given.
TablesOf(group) == {grouped[group][i] : i \in DOMAIN grouped[group]}
\* The heading of the table holds the word for "unindexed".
HeadedUnindexed(n) == re_search(overdtrygg, lower_text(page_tables[n].heading))
IndexedKeys == {"spar_indexed", "mortgages_indexed"}
UnindexedKeys == {"spar_unindexed", "mortgages_unindexed"}

\* C21 (as claimed): a table whose heading contains "overdtrygg" is never
\* given to the indexed sub-section; when its heading also has the other
\* keywords of the unindexed sub-section it is given to that one; and no
\* table is given to two sub-sections.
C21_UnindexedNeverIndexed ==
    ppc \in {"deposits", "loans"} =>
        /\ \A n \in DOMAIN page_tables :
            HeadedUnindexed(n) =>
                /\ \A group \in DOMAIN grouped \cap IndexedKeys : n \notin TablesOf(group)
                /\ \A group \in DOMAIN grouped \cap UnindexedKeys :
                    (\E e \in DOMAIN (IF ppc = "deposits" THEN deposit_keyword_map
                                      ELSE loan_keyword_map) :
                        LET entry == (IF ppc = "deposits" THEN deposit_keyword_map
                                      ELSE loan_keyword_map)[e]
                        IN  /\ entry.key = group
                            /\ \E g \in DOMAIN entry.groups :
                                \A pattern \in entry.groups[g] :
                                    re_search(pattern, lower_text(page_tables[n].heading)))
                    => n \in TablesOf(group)
        /\ \A g1, g2 \in DOMAIN grouped :
            g1 # g2 => TablesOf(g1) \cap TablesOf(g2) = {}

\* The dict stored for the tables of a key that is merged on its own.
StoredFor(group) ==
    CASE group = "veltureikningar" -> combined.veltureikningar
      [] group = "spar_indexed" -> combined.sparireikningar.indexed
      [] group = "spar_unindexed" -> combined.sparireikningar.unindexed
      [] group = "foreign_currency" -> combined.foreign_currency
      [] group = "mortgages_indexed" -> combined.mortgages.indexed
      [] group = "mortgages_unindexed" -> combined.mortgages.unindexed
      [] group = "overdrafts" -> combined.overdrafts
      [] group = "credit_cards" -> combined.credit_cards
      [] group = "vehicle_loans" -> combined.vehicle_loans

\* C23 (as claimed): in every sub-section, a key that several of its tables
\* hold has the value of the first of them in document order.
C23_FirstSeenWins ==
    ppc \in {"deposits", "loans"} =>
        \A group \in DOMAIN grouped \ {"spar_general", "mortgages_generic"} :
            \A i \in DOMAIN grouped[group] :
                LET rows == parse_table_rows(page_tables[grouped[group][i]].rows)
                IN  \A name \in DOMAIN rows :
                        (\A j \in 1..(i - 1) :
                            name \notin DOMAIN parse_table_rows(
                                            page_tables[grouped[group][j]].rows))
                        => /\ name \in DOMAIN StoredFor(group)
                           /\ StoredFor(group)[name] = rows[name]

---------------------------------------------------------------------------
\* SpecSections: the mortgage rates of ArionBankiScraper.parse_rates_from_pdf.
\* The text is the sequence of its lines: the heading of the indexed
\* mortgages ("Verdtryggd ibudalan"), the heading of the unindexed ones
\* ("Overdtryggd ibudalan", which holds the former after its first letter),
\* a line that holds "Vidbotaribudalan" or "Kreditkort", or the line of one
\* rate, which the pattern of its field matches.

IndexedHeading == [line |-> "Verdtryggd ibudalan"]
UnindexedHeading == [line |-> "Overdtryggd ibudalan"]
SectionEnd == [line |-> "Kreditkort"]
RateLine(field, text) == [line |-> "rate", field |-> field, group |-> text]

\* ArionBankiScraper.parse_rate with the pattern of a field: the rate of the
\* first line of the text the pattern matches, or None.
arion_parse_rate(text, field) ==
    LET matches == {n \in DOMAIN text : text[n].line = "rate" /\ text[n].field = field}
    IN  IF matches = {} THEN Null
        ELSE LET match == text[CHOOSE n \in matches : \A other \in matches : n <= other]
                 value == Strip(Replace(Replace(match.group, ",", "."), "%", ""))
                 f == float(value)
             IN  IF f.raised THEN Null ELSE f.value

\* re.search(r"<start>.*?(?=<stop>)", text, re.IGNORECASE | re.DOTALL): the
\* leftmost line that holds the start keyword and has a later line that holds
\* a stop keyword, up to the first such line; group(0), or the whole text
\* when there is no match.
section_text(text, starts, stops) ==
    LET begins == {n \in DOMAIN text :
                    /\ text[n] \in starts
                    /\ \E m \in (n + 1)..Len(text) : text[m] \in stops}
    IN  IF begins = {} THEN text
        ELSE LET first == CHOOSE n \in begins : \A other \in begins : n <= other
                 ends == {m \in (first + 1)..Len(text) : text[m] \in stops}
                 stop == CHOOSE m \in ends : \A other \in ends : m <= other
             IN  SubSeq(text, first, stop - 1)

\* rates["mortgages"] of parse_rates_from_pdf.
parse_pdf_mortgages(text) ==
    LET indexed_text == section_text(text, {IndexedHeading, UnindexedHeading},
                                     {UnindexedHeading})
        unindexed_text == section_text(text, {UnindexedHeading}, {SectionEnd})
    IN  [indexed |->
            [field \in {"variable_ibudalan_i", "variable_ibudalan_ii",
                        "variable_ibudalan_iii", "fixed_3yr_ibudalan_i",
                        "fixed_3yr_ibudalan_ii"} |-> arion_parse_rate(indexed_text, field)],
         unindexed |->
            [field \in {"variable_ibudalan_i", "variable_ibudalan_ii"} |->
                arion_parse_rate(unindexed_text, field)]]

\* The lines of the texts: the three keywords and the lines of three rates.
PdfLines ==
    {IndexedHeading, UnindexedHeading, SectionEnd,
     RateLine("variable_ibudalan_i", <<"4", ",", "5", "0">>),
     RateLine("variable_ibudalan_i", <<"9", ".", "2", "5">>),
     RateLine("variable_ibudalan_ii", <<"4", ",", "5", "0">>)}

SectionsInit ==
    /\ pdf_text \in UNION {[1..m -> PdfLines] : m \in 0..MaxLines}
    /\ pdf_mortgages = <<>> /\ ppc = "start"
    /\ account_name = <<>> /\ normalized = <<>> /\ table = <<>> /\ row_result = <<>>
    /\ page_tables = <<>> /\ grouped = <<>> /\ combined = <<>>
    /\ MergeIdle /\ CountIdle /\ AIIdle
    /\ ScrapeIdle /\ ServiceIdle /\ DateIdle /\ TierIdle

ParseRatesFromPdf ==
    /\ ppc = "start"
    /\ pdf_mortgages' = parse_pdf_mortgages(pdf_text)
    /\ ppc' = "parsed"
    /\ UNCHANGED <<account_name, normalized, table, row_result, page_tables, grouped,
                   combined, pdf_text>>
    /\ UNCHANGED <<merge_vars, count_vars, ai_vars, scrape_vars, service_vars,
                   date_vars, tier_vars>>

SpecSections == SectionsInit /\ [][ParseRatesFromPdf]_vars

\* The lines inside the section of a heading: those whose nearest keyword
\* line before them is that heading.
InSection(heading) ==
    {n \in DOMAIN pdf_text :
        /\ pdf_text[n].line = "rate"
        /\ \E h \in 1..(n - 1) :
            /\ pdf_text[h] = heading
            /\ \A m \in (h + 1)..(n - 1) : pdf_text[m].line = "rate"}

\* The rate of the field is the rate of a line of these lines.
MatchedInside(value, field, lines) ==
    \E n \in lines : arion_parse_rate(<<pdf_text[n]>>, field) = value

\* C22 (as claimed): for every text, whether or not a keyword is missing or
\* the sections are in the other order, every rate of mortgages.indexed is
\* the rate of a line inside the indexed section and every rate of
\* mortgages.unindexed the rate of a line inside the unindexed section.
C22_SectionIsolation ==
    ppc = "parsed" =>
        /\ \A field \in DOMAIN pdf_mortgages.indexed :
            pdf_mortgages.indexed[field] # Null =>
                MatchedInside(pdf_mortgages.indexed[field], field, InSection(IndexedHeading))
        /\ \A field \in DOMAIN pdf_mortgages.unindexed :
            pdf_mortgages.unindexed[field] # Null =>
                MatchedInside(pdf_mortgages.unindexed[field], field,
                              InSection(UnindexedHeading))

====
